---- MODULE Spec2Model ----
(***************************************************************************)
(* Portfolio back-testing engine (backend/services/back_test_services.py). *)
(*                                                                         *)
(* Units.  Money (cash, cost, proceeds, target and portfolio values) is an *)
(* integer number of cents, the precision every monetary quantize('0.01')  *)
(* of the code keeps.  A price is an integer number of 1/10000, the scale  *)
(* of the DECIMAL(12, 4) price columns, so PriceUnitsPerCent price units   *)
(* make one cent.  A weight returned by calculate_weights is an integer    *)
(* number of 1/10^8 (the code keeps 16 significant digits); a weight       *)
(* normalised by execute_rebalance is an integer number of 1/10^6, the     *)
(* precision of its quantize('0.000001').  Products of a quantity and a    *)
(* price are exact here (the code forms them in binary floating point and  *)
(* reads them back through str()).                                         *)
(***************************************************************************)
EXTENDS Integers, Sequences, FiniteSets, TLC

VARIABLES
    stock_prices,         \* rows of the stock_prices table
    fundamentals,         \* rows of the fundamental_data table, in database order
    companies,            \* rows of the companies table, by id
    today,                \* the wall-clock date, date.today()
    request,              \* the BacktestRequest
    portfolio,            \* self.portfolio, self.portfolio_history, self.companies_list, log
    selection,            \* run_backtest's locals of the last selection: top_stocks, weights
    rebalance_dates,      \* run_backtest's local: the periodic schedule
    next_date,            \* index into rebalance_dates of the next date to process
    pc,                   \* position of run_backtest
    results,              \* the report returned by run_backtest
    call                  \* the arguments of the last call made on the ledger from outside

vars == <<stock_prices, fundamentals, companies, today, request, portfolio, selection,
          rebalance_dates, next_date, pc, results, call>>

-----------------------------------------------------------------------------
(* Bounds of the model *)

NumCompanies == 2

Companies == 1..NumCompanies

-----------------------------------------------------------------------------
(* Optional values: None is the empty tuple, a present value v is <<v>>. *)

None == <<>>

Some(v) == <<v>>

-----------------------------------------------------------------------------
(* Sequence helpers *)

RECURSIVE SeqSum(_)
SeqSum(s) == IF s = <<>> THEN 0 ELSE Head(s) + SeqSum(Tail(s))

Last(s) == s[Len(s)]

SetMax(S) == CHOOSE x \in S : \A y \in S : y <= x

Abs(x) == IF x < 0 THEN -x ELSE x

-----------------------------------------------------------------------------
(* Decimal arithmetic *)

PriceUnitsPerCent == 100

WeightUnit == 100000000

NormUnit == 1000000

\* n / d rounded to the nearest integer, ties away from zero (ROUND_HALF_UP), n >= 0
RoundHalfUp(n, d) == (2 * n + d) \div (2 * d)

\* a * b / NormUnit rounded ROUND_HALF_UP, without forming a * b
\* (b = bh * 1000 + bl; the partial products stay below 2^31 for a <= 2 * 10^6)
MulNormRound(a, b) ==
    LET bh == b \div 1000
        bl == b % 1000
        hi == a * bh
        lo == (hi % 1000) * 1000 + a * bl
    IN  (hi \div 1000) + RoundHalfUp(lo, NormUnit)

\* <<floor(n * 10^k / d), (n * 10^k) % d>> by long division, one decimal digit
\* at a time (d <= 2 * 10^8 keeps every intermediate value below 2^31)
NextDigit(p, d) == <<p[1] * 10 + ((p[2] * 10) \div d), (p[2] * 10) % d>>

RECURSIVE LongDiv(_, _, _)
LongDiv(n, d, k) ==
    IF k = 0 THEN <<n \div d, n % d>>
    ELSE NextDigit(LongDiv(n, d, k - 1), d)

\* quotient and remainder p of a division by d, rounded ROUND_HALF_UP
RoundQuotient(p, d) == p[1] + (IF 2 * p[2] >= d THEN 1 ELSE 0)

\* n / d to k decimal places, ROUND_HALF_UP, as an integer number of 10^-k
DivRound(n, d, k) == RoundQuotient(LongDiv(n, d, k), d)

\* a / b > c / d for a, c >= 0 and b, d > 0, by comparing integer parts and then
\* the reciprocals of the fractional parts (no product is formed)
RECURSIVE RatGreater(_, _, _, _)
RatGreater(a, b, c, d) ==
    LET qa == a \div b
        qc == c \div d
        ra == a % b
        rc == c % d
    IN  IF qa # qc THEN qa > qc
        ELSE IF ra = 0 THEN FALSE
        ELSE IF rc = 0 THEN TRUE
        ELSE RatGreater(d, rc, b, ra)

-----------------------------------------------------------------------------
(* The price table and the price resolver *)

\* the price of a row: adjusted_close when present, else close (possibly None)
RowPrice(row) ==
    IF row.adjusted_close # None THEN row.adjusted_close ELSE row.close

\* get_stock_prices for one company: the rows between the dates (the frame's
\* date index); the forward fill makes a backward scan for the last non-NaN
\* value find the most recent row of the frame that has a price
GetStockPrices(company_id, start_date, end_date) ==
    {row \in stock_prices : /\ row.company_id = company_id
                            /\ start_date <= row.date
                            /\ row.date <= end_date}

\* the price of the oldest of the rows: a scan from the wrong end of the frame
OldestPriced(priced) ==
    IF priced = {} THEN None
    ELSE RowPrice(CHOOSE row \in priced :
                      \A other \in priced : row.date <= other.date)

\* the price of the most recent of the rows, which all have one
LatestPriced(priced) ==
    IF priced = {} THEN None
    ELSE RowPrice(CHOOSE row \in priced :
                      \A other \in priced : other.date <= row.date)

\* the last available value of a frame, None when every value is NaN
LastAvailable(frame) == LatestPriced({row \in frame : RowPrice(row) # None})

FallbackDays == 30

ExtendedFallbackDays == 90

\* a resolver that takes the most recent price however old it is
GetLastKnownPrice(company_id, as_of_date) ==
    LET known == LastAvailable(GetStockPrices(company_id, 0, as_of_date))
    IN  IF known # None THEN known[1] ELSE 0

\* get_current_price: exact date, then 30 days back, then 90 days back, else 0.0
GetCurrentPrice(company_id, as_of_date) ==
    LET exact == LastAvailable(GetStockPrices(company_id, as_of_date, as_of_date))
        fallback == LastAvailable(
            GetStockPrices(company_id, as_of_date - FallbackDays, as_of_date))
        extended == LastAvailable(
            GetStockPrices(company_id, as_of_date - ExtendedFallbackDays, as_of_date))
    IN  IF exact # None THEN exact[1]
        ELSE IF fallback # None THEN fallback[1]
        ELSE IF extended # None THEN extended[1]
        ELSE 0

-----------------------------------------------------------------------------
(* The ledger: self.portfolio with self.portfolio_history, self.companies_list
   and the log.  holdings is the holdings dict in insertion order, a sequence of
   [company_id, quantity, avg_price]; raised is set when an exception is
   propagating out of the operation; db_down says that the database refuses
   queries, so that a company lookup that misses companies_list raises. *)

\* initialize_portfolio
InitializePortfolio ==
    [holdings |-> <<>>, cash_balance |-> 0, transaction_history |-> <<>>,
     portfolio_history |-> <<>>, companies_list |-> {}, log |-> <<>>,
     raised |-> FALSE, db_down |-> FALSE]

LogEvent(P, event, date, company_id) ==
    [P EXCEPT !.log = Append(@, [event |-> event, date |-> date,
                                 company_id |-> company_id])]

HeldIds(holdings) == {holdings[i].company_id : i \in DOMAIN holdings}

HoldingOf(holdings, company_id) ==
    holdings[CHOOSE i \in DOMAIN holdings : holdings[i].company_id = company_id]

RemoveHolding(holdings, company_id) ==
    SelectSeq(holdings, LAMBDA h : h.company_id # company_id)

\* the market value, in price units, of the holdings whose price resolves
RECURSIVE HoldingsValue(_, _)
HoldingsValue(holdings, as_of_date) ==
    IF holdings = <<>> THEN 0
    ELSE LET h == Head(holdings)
             price == GetCurrentPrice(h.company_id, as_of_date)
         IN  (IF price > 0 THEN h.quantity * price ELSE 0)
             + HoldingsValue(Tail(holdings), as_of_date)

\* get_portfolio_value, in cents
GetPortfolioValue(P, as_of_date) ==
    RoundHalfUp(P.cash_balance * PriceUnitsPerCent
                    + HoldingsValue(P.holdings, as_of_date),
                PriceUnitsPerCent)

\* get_company_info: TRUE when the company is returned, FALSE when the lookup raises
CompanyFound(P, company_id) ==
    company_id \in P.companies_list \/ ~P.db_down

Transaction(P, date, company_id, action, quantity, price, total_value) ==
    [date |-> date, company_id |-> company_id, action |-> action,
     quantity |-> quantity, price |-> price, total_value |-> total_value,
     portfolio_value |-> GetPortfolioValue(P, date),
     cash_balance |-> P.cash_balance]

\* execute_buy, lines 469-480, and execute_sell, lines 508-519: the
\* transaction is appended after the ledger has been updated
RecordTransaction(P, date, company_id, action, quantity, price, total_value) ==
    [P EXCEPT !.transaction_history =
        Append(@, Transaction(P, date, company_id, action, quantity, price,
                              total_value))]

\* execute_buy, lines 449-456: a holding that a buy adds to
AddToHolding(old, quantity, cost) ==
    [company_id |-> old.company_id,
     quantity |-> old.quantity + quantity,
     avg_price |-> PriceUnitsPerCent *
                   RoundHalfUp(old.quantity * old.avg_price
                                   + cost * PriceUnitsPerCent,
                               (old.quantity + quantity) * PriceUnitsPerCent)]

\* execute_buy, lines 447-464: the holdings after a buy
HoldingsAfterBuy(holdings, company_id, quantity, price, cost) ==
    IF company_id \in HeldIds(holdings)
    THEN [i \in DOMAIN holdings |->
            IF holdings[i].company_id = company_id
            THEN AddToHolding(holdings[i], quantity, cost)
            ELSE holdings[i]]
    ELSE Append(holdings, [company_id |-> company_id, quantity |-> quantity,
                           avg_price |-> price])

\* a ledger whose buys are never refused for lack of cash
NeverInsufficient(cost, cash_balance) == FALSE

\* execute_buy, line 439: the cost exceeds the available cash
InsufficientCash(cost, cash_balance) == cost > cash_balance

\* execute_buy, lines 439-480, for the cost computed at line 436: the cash is
\* debited before the company is looked up
BuyAtCost(P, company_id, quantity, price, date, cost) ==
    IF InsufficientCash(cost, P.cash_balance)
    THEN LogEvent(P, "insufficient_cash", date, company_id)
    ELSE IF ~CompanyFound(P, company_id)
    THEN [P EXCEPT !.cash_balance = @ - cost, !.raised = TRUE]
    ELSE RecordTransaction(
             [P EXCEPT !.cash_balance = @ - cost,
                       !.holdings = HoldingsAfterBuy(@, company_id, quantity,
                                                     price, cost),
                       !.companies_list = @ \cup {company_id}],
             date, company_id, "BUY", quantity, price, cost)

\* execute_buy
ExecuteBuy(P, company_id, quantity, price, date) ==
    IF price <= 0 THEN LogEvent(P, "buy_invalid_price", date, company_id)
    ELSE BuyAtCost(P, company_id, quantity, price, date,
                   RoundHalfUp(quantity * price, PriceUnitsPerCent))

\* a sell that takes the requested quantity as it is
SellQuantityRequested(quantity, held_quantity) == quantity

\* execute_sell, line 494: min(quantity, holding['quantity'])
SellQuantity(quantity, held_quantity) ==
    IF quantity < held_quantity THEN quantity ELSE held_quantity

\* execute_sell, lines 501-504: the holdings after a sell; a holding whose
\* quantity is not above 0 any more is deleted
HoldingsAfterSell(holdings, company_id, sell_qty) ==
    IF HoldingOf(holdings, company_id).quantity - sell_qty <= 0
    THEN RemoveHolding(holdings, company_id)
    ELSE [i \in DOMAIN holdings |->
            IF holdings[i].company_id = company_id
            THEN [holdings[i] EXCEPT !.quantity = @ - sell_qty]
            ELSE holdings[i]]

\* execute_sell, lines 495-519, for the quantity of line 494 and the proceeds
\* of line 495: cash and holdings are updated before the company is looked up
SellForProceeds(P, company_id, sell_qty, price, date, proceeds) ==
    IF ~CompanyFound(P, company_id)
    THEN [P EXCEPT !.cash_balance = @ + proceeds,
                   !.holdings = HoldingsAfterSell(@, company_id, sell_qty),
                   !.raised = TRUE]
    ELSE RecordTransaction(
             [P EXCEPT !.cash_balance = @ + proceeds,
                       !.holdings = HoldingsAfterSell(@, company_id, sell_qty),
                       !.companies_list = @ \cup {company_id}],
             date, company_id, "SELL", sell_qty, price, proceeds)

\* execute_sell, lines 493-495
SellShares(P, company_id, sell_qty, price, date) ==
    SellForProceeds(P, company_id, sell_qty, price, date,
                    RoundHalfUp(sell_qty * price, PriceUnitsPerCent))

\* execute_sell
ExecuteSell(P, company_id, quantity, price, date) ==
    IF company_id \notin HeldIds(P.holdings)
    THEN LogEvent(P, "sell_not_held", date, company_id)
    ELSE IF price <= 0 THEN LogEvent(P, "sell_invalid_price", date, company_id)
    ELSE SellShares(P, company_id,
                    SellQuantity(quantity,
                                 HoldingOf(P.holdings, company_id).quantity),
                    price, date)

\* record_portfolio_snapshot: the holdings detail of one holding
HoldingDetail(h, date) ==
    LET resolved == GetCurrentPrice(h.company_id, date)
        current_price == IF resolved <= 0 THEN 0 ELSE resolved
    IN  [company_id |-> h.company_id,
         quantity |-> h.quantity,
         avg_price |-> RoundHalfUp(h.avg_price, PriceUnitsPerCent),
         current_price |-> RoundHalfUp(current_price, PriceUnitsPerCent),
         value |-> RoundHalfUp(h.quantity * current_price, PriceUnitsPerCent)]

\* a snapshot total that leaves the cash out
SnapshotTotalValueHoldingsOnly(P, date) ==
    RoundHalfUp(HoldingsValue(P.holdings, date), PriceUnitsPerCent)

\* record_portfolio_snapshot: total_value, in cents
SnapshotTotalValue(P, date) ==
    RoundHalfUp(P.cash_balance * PriceUnitsPerCent
                    + HoldingsValue(P.holdings, date),
                PriceUnitsPerCent)

\* record_portfolio_snapshot
RecordPortfolioSnapshot(P, date) ==
    IF \E i \in DOMAIN P.holdings : ~CompanyFound(P, P.holdings[i].company_id)
    THEN [P EXCEPT !.raised = TRUE]
    ELSE [P EXCEPT
            !.companies_list = @ \cup HeldIds(P.holdings),
            !.portfolio_history =
                Append(@, [date |-> date,
                           holdings |-> [i \in DOMAIN P.holdings |->
                                            HoldingDetail(P.holdings[i], date)],
                           cash_balance |-> P.cash_balance,
                           total_value |-> SnapshotTotalValue(P, date)])]

-----------------------------------------------------------------------------
(* Rebalancing.  A weights dict is a sequence of [company_id, weight] in the
   dict's insertion order. *)

WeightIds(w) == {w[i].company_id : i \in DOMAIN w}

WeightOf(w, company_id) ==
    w[CHOOSE i \in DOMAIN w : w[i].company_id = company_id].weight

\* calculate_current_weights, lines 101-112: the weight of one holding as the
\* fraction num / den
CurrentWeight(h, current_price, total_value) ==
    [company_id |-> h.company_id,
     num |-> IF current_price > 0 THEN h.quantity * current_price ELSE 0,
     den |-> total_value * PriceUnitsPerCent]

\* calculate_current_weights, lines 98-114, for the total value of line 97
\* and the date that date.today() returns
WeightsOfTotal(holdings, total_value, now) ==
    IF total_value <= 0 THEN <<>>
    ELSE [i \in DOMAIN holdings |->
            CurrentWeight(holdings[i],
                          GetCurrentPrice(holdings[i].company_id, now),
                          total_value)]

\* calculate_current_weights when date.today() returns now
CurrentWeightsOn(P, now) ==
    IF P.holdings = <<>> THEN <<>>
    ELSE WeightsOfTotal(P.holdings, GetPortfolioValue(P, now), now)

\* calculate_current_weights: [company_id, num, den] per holding, the weight
\* being num / den; the prices and the portfolio value are those of date.today()
CalculateCurrentWeights(P) == CurrentWeightsOn(P, today)

\* the tolerance 0.01 of weights_changed, in normalised-weight units
Tolerance == NormUnit \div 100

\* weights_changed, line 85: abs(current - new) > tolerance
WeightMoved(c, new) ==
    \/ RatGreater(c.num, c.den, new + Tolerance, NormUnit)
    \/ /\ new > Tolerance
       /\ RatGreater(new - Tolerance, NormUnit, c.num, c.den)

\* weights_changed
WeightsChanged(current_weights, new_weights) ==
    \/ {current_weights[i].company_id : i \in DOMAIN current_weights}
           # WeightIds(new_weights)
    \/ \E i \in DOMAIN current_weights :
          WeightMoved(current_weights[i],
                      WeightOf(new_weights, current_weights[i].company_id))

\* execute_rebalance, lines 319-330: the target companies whose price resolves
ValidCompanyIds(w, current_date) ==
    SelectSeq(w, LAMBDA e : GetCurrentPrice(e.company_id, current_date) > 0)

\* execute_rebalance, lines 343-346: the weights normalised to 6 places
NormalisedWeights(valid, total_weight) ==
    [i \in DOMAIN valid |->
        [company_id |-> valid[i].company_id,
         weight |-> DivRound(valid[i].weight, total_weight, 6)]]

\* execute_rebalance, lines 336-346
ValidWeights(valid) ==
    NormalisedWeights(valid, SeqSum([i \in DOMAIN valid |-> valid[i].weight]))

\* execute_rebalance, lines 361-380: one holding of the sell loop
SellHolding(P, h, price, current_date) ==
    IF price <= 0
    THEN LogEvent(P, "sell_unpriced", current_date, h.company_id)
    ELSE IF h.quantity <= 0 THEN P
    ELSE ExecuteSell(P, h.company_id, h.quantity, price, current_date)

\* execute_rebalance, step 1: sell every holding whose price resolves
RECURSIVE SellAll(_, _, _)
SellAll(P, holdings_copy, current_date) ==
    IF holdings_copy = <<>> \/ P.raised THEN P
    ELSE SellAll(SellHolding(P, Head(holdings_copy),
                             GetCurrentPrice(Head(holdings_copy).company_id,
                                             current_date),
                             current_date),
                 Tail(holdings_copy), current_date)

\* execute_rebalance, step 2: the target value of one weight, in cents
TargetValue(total_capital, weight) == MulNormRound(total_capital, weight)

\* execute_rebalance, step 3: the number of shares bought for a target value
BuyQuantity(target_value, price) ==
    (target_value * PriceUnitsPerCent) \div price

\* execute_rebalance, lines 409-418: the buy of a positive number of shares
BuyShares(P, company_id, quantity, price, current_date) ==
    IF quantity <= 0 THEN P
    ELSE ExecuteBuy(P, company_id, quantity, price, current_date)

\* execute_rebalance, lines 402-421: one target of the buy loop
BuyTarget(P, t, price, current_date) ==
    IF price <= 0 THEN P
    ELSE BuyShares(P, t.company_id, BuyQuantity(t.target_value, price), price,
                   current_date)

\* execute_rebalance, step 3: buy according to the targets
RECURSIVE BuyTargets(_, _, _)
BuyTargets(P, target_values, current_date) ==
    IF target_values = <<>> \/ P.raised THEN P
    ELSE BuyTargets(BuyTarget(P, Head(target_values),
                              GetCurrentPrice(Head(target_values).company_id,
                                              current_date),
                              current_date),
                    Tail(target_values), current_date)

\* execute_rebalance, lines 389-396: the target value of every weight
TargetValues(total_capital, valid_weights) ==
    [i \in DOMAIN valid_weights |->
        [company_id |-> valid_weights[i].company_id,
         target_value |-> TargetValue(total_capital, valid_weights[i].weight)]]

\* execute_rebalance, line 424: the snapshot, unless a buy raised
SnapshotAfterBuys(bought, current_date) ==
    IF bought.raised THEN bought
    ELSE RecordPortfolioSnapshot(bought, current_date)

\* a rebalance that records its snapshot before it buys
SnapshotBeforeBuys(sold, valid_weights, current_date) ==
    IF sold.raised THEN sold
    ELSE IF sold.cash_balance <= 0
    THEN LogEvent(sold, "no_capital", current_date, 0)
    ELSE BuyTargets(RecordPortfolioSnapshot(sold, current_date),
                    TargetValues(sold.cash_balance, valid_weights),
                    current_date)

\* execute_rebalance, steps 2 to 4, on the ledger the sells left
BuyAfterSells(sold, valid_weights, current_date) ==
    IF sold.raised THEN sold
    ELSE IF sold.cash_balance <= 0
    THEN LogEvent(sold, "no_capital", current_date, 0)
    ELSE SnapshotAfterBuys(
             BuyTargets(sold, TargetValues(sold.cash_balance, valid_weights),
                        current_date),
             current_date)

\* execute_rebalance, steps 1 to 4, once the weights are found to have changed
RebalanceTrades(P, valid_weights, current_date) ==
    BuyAfterSells(SellAll(LogEvent(P, "executing_rebalance", current_date, 0),
                          P.holdings, current_date),
                  valid_weights, current_date)

\* execute_rebalance, lines 352-424, for the normalised weights
RebalanceIfChanged(P, current_weights, valid_weights, current_date) ==
    IF current_weights # <<>> /\ ~WeightsChanged(current_weights, valid_weights)
    THEN LogEvent(P, "weights_unchanged", current_date, 0)
    ELSE RebalanceTrades(P, valid_weights, current_date)

\* execute_rebalance, lines 332-424, for the targets whose price resolves
RebalanceValid(P, valid, current_date) ==
    IF valid = <<>>
    THEN LogEvent(P, "no_valid_companies", current_date, 0)
    ELSE IF SeqSum([i \in DOMAIN valid |-> valid[i].weight]) <= 0
    THEN LogEvent(P, "invalid_total_weight", current_date, 0)
    ELSE RebalanceIfChanged(P, CalculateCurrentWeights(P), ValidWeights(valid),
                            current_date)

\* execute_rebalance
ExecuteRebalance(P, w, current_date) ==
    RebalanceValid(P, ValidCompanyIds(w, current_date), current_date)

-----------------------------------------------------------------------------
(* Selection: query_for_rebalance, rank_companies, calculate_weights.  A
   selected entry is the fundamental_data row joined to its company; the
   company is row.company_id. *)

MarketCapFactor == 10000000

\* the latest report date of a company that is <= the rebalance date, as a set
LatestDate(company_id, rebalance_date) ==
    LET dates == {fundamentals[i].report_date : i \in
                    {j \in DOMAIN fundamentals :
                        /\ fundamentals[j].company_id = company_id
                        /\ fundamentals[j].report_date <= rebalance_date}}
    IN  IF dates = {} THEN {} ELSE {SetMax(dates)}

\* the filters of query_for_rebalance on one row (an SQL comparison with NULL fails)
PassesFilters(row, filters) ==
    /\ filters.min_market_cap # None /\ filters.min_market_cap[1] # 0 =>
          /\ row.market_cap # None
          /\ row.market_cap[1] >= filters.min_market_cap[1] * MarketCapFactor
    /\ filters.max_market_cap # None /\ filters.max_market_cap[1] # 0 =>
          /\ row.market_cap # None
          /\ row.market_cap[1] <= filters.max_market_cap[1] * MarketCapFactor
    /\ filters.min_roce # None /\ filters.min_roce[1] # 0 =>
          /\ row.roce # None
          /\ row.roce[1] >= filters.min_roce[1]
    /\ filters.pat_positive =>
          /\ row.pat # None
          /\ row.pat[1] > 1

\* query_for_rebalance: the rows of active companies that carry the company's
\* latest report date <= rebalance_date and pass the filters, in table order
QueryForRebalance(filters, rebalance_date) ==
    SelectSeq(fundamentals,
              LAMBDA row :
                  /\ companies[row.company_id].is_active
                  /\ row.report_date \in LatestDate(row.company_id, rebalance_date)
                  /\ PassesFilters(row, filters))

\* rank_companies, lines 229-237: the value of a metric of a row, 0.0 when the
\* attribute is missing, None or not a number
MetricValue(row, metric) ==
    IF metric \in {"market_cap", "roce", "roe", "pat"} /\ row[metric] # None
    THEN row[metric][1]
    ELSE 0

\* rank_companies, lines 222-243: the score of a row under the first dict of
\* the metrics list; a dict is a sequence of [metric, higher_is_better]
RECURSIVE Score(_, _)
Score(row, metrics_dict) ==
    IF metrics_dict = <<>> THEN 0
    ELSE LET m == Head(metrics_dict)
             v == MetricValue(row, m.metric)
         IN  (IF m.higher_is_better THEN v ELSE -v) + Score(row, Tail(metrics_dict))

\* np.argsort(scores)[::-1] for the short lists modelled here (numpy sorts fewer
\* than 17 elements by insertion, which is stable): position i comes before
\* position j when its score is higher, or equal with i > j
ArgsortReversed(scores) ==
    LET n == Len(scores)
        before(i, j) == scores[i] > scores[j] \/ (scores[i] = scores[j] /\ i > j)
        rank(i) == 1 + Cardinality({j \in 1..n : j # i /\ before(j, i)})
    IN  [k \in 1..n |-> CHOOSE i \in 1..n : rank(i) = k]

\* rank_companies: the rows in ranked order
RankCompanies(rows, metrics) ==
    IF metrics = <<>> \/ rows = <<>> THEN rows
    ELSE LET scores == [i \in DOMAIN rows |-> Score(rows[i], metrics[1])]
             order == ArgsortReversed(scores)
         IN  [k \in DOMAIN rows |-> rows[order[k]]]

\* rank_companies, lines 219 and 247: the scores returned with the rows, in
\* ranked order
RankedScores(rows, metrics) ==
    IF metrics = <<>> \/ rows = <<>> THEN [k \in DOMAIN rows |-> 0]
    ELSE LET scores == [i \in DOMAIN rows |-> Score(rows[i], metrics[1])]
             order == ArgsortReversed(scores)
         IN  [k \in DOMAIN rows |-> scores[order[k]]]

\* ranked[:portfolio_size]
TopStocks(ranked, portfolio_size) ==
    SubSeq(ranked, 1, IF portfolio_size < Len(ranked) THEN portfolio_size
                      ELSE Len(ranked))

\* a dict built from a sequence of [company_id, weight]: a repeated key keeps its
\* first position and takes the last value
DictOf(pairs) ==
    LET firsts == SelectSeq([i \in DOMAIN pairs |-> i],
                            LAMBDA i : \A j \in 1..(i - 1) :
                                pairs[j].company_id # pairs[i].company_id)
        last(cid) == SetMax({j \in DOMAIN pairs : pairs[j].company_id = cid})
    IN  [k \in DOMAIN firsts |->
            [company_id |-> pairs[firsts[k]].company_id,
             weight |-> pairs[last(pairs[firsts[k]].company_id)].weight]]

ZeroWeights(rows) ==
    DictOf([i \in DOMAIN rows |-> [company_id |-> rows[i].company_id, weight |-> 0]])

\* calculate_weights, lines 260-293: weights proportional to a positive attribute
ProportionalWeights(rows, attribute) ==
    LET valid == SelectSeq(rows, LAMBDA r : r[attribute] # None
                                            /\ r[attribute][1] > 0)
        total == SeqSum([i \in DOMAIN valid |-> valid[i][attribute][1]])
    IN  IF valid = <<>> THEN ZeroWeights(rows)
        ELSE DictOf([i \in DOMAIN valid |->
                        [company_id |-> valid[i].company_id,
                         weight |-> DivRound(valid[i][attribute][1], total, 8)]])

KnownMethods == {"equal", "market_cap", "metric_weighted"}

\* calculate_weights
CalculateWeights(rows, method) ==
    IF rows = <<>> THEN <<>>
    ELSE IF method = "equal"
    THEN DictOf([i \in DOMAIN rows |->
                    [company_id |-> rows[i].company_id,
                     weight |-> DivRound(1, Len(rows), 8)]])
    ELSE IF method = "market_cap" THEN ProportionalWeights(rows, "market_cap")
    ELSE IF method = "metric_weighted" THEN ProportionalWeights(rows, "roce")
    ELSE ZeroWeights(rows)

-----------------------------------------------------------------------------
(* PerformanceMetrics (back_test_metrics.py).  A P&L is in the unit of the
   prices (1/10000); a float ratio is kept as a reduced fraction
   <<numerator, denominator>> with a positive denominator. *)

RECURSIVE GCD(_, _)
GCD(a, b) == IF b = 0 THEN a ELSE GCD(b, a % b)

\* n / d for d > 0
Ratio(n, d) == <<n \div GCD(Abs(n), d), d \div GCD(Abs(n), d)>>

\* 0.0
ZeroRatio == <<0, 1>>

\* x > y for two ratios (no product is formed)
RatioGreater(x, y) ==
    IF x[1] >= 0 /\ y[1] >= 0 THEN RatGreater(x[1], x[2], y[1], y[2])
    ELSE IF x[1] >= 0 THEN TRUE
    ELSE IF y[1] >= 0 THEN FALSE
    ELSE RatGreater(-y[1], y[2], -x[1], x[2])

Min(a, b) == IF a < b THEN a ELSE b

\* buy.get('used_quantity', 0)
UsedQuantity(tx) ==
    IF "used_quantity" \in DOMAIN tx THEN tx.used_quantity ELSE 0

\* buy['used_quantity'] = n: the key is added to the transaction's dict
WithUsedQuantity(tx, n) == ("used_quantity" :> n) @@ tx

\* the positions of a symbol's transactions of one action, in list order
PositionsOf(txs, company_id, action) ==
    SelectSeq([i \in DOMAIN txs |-> i],
              LAMBDA i : /\ txs[i].company_id = company_id
                         /\ txs[i].action = action)

\* the symbols of the transactions in the order of their first appearance
\* (the keys of the dict the transactions are grouped in)
Symbols(txs) ==
    LET firsts == SelectSeq([i \in DOMAIN txs |-> i],
                            LAMBDA i : \A j \in 1..(i - 1) :
                                txs[j].company_id # txs[i].company_id)
    IN  [k \in DOMAIN firsts |-> txs[firsts[k]].company_id]

\* calculate_win_rate, lines 244-252, and calculate_profit_factor, lines
\* 282-291: one trade of the sell at position s against the buy at position
\* b; the buy's used_quantity and the sell's quantity are written into the
\* transaction dicts of the list
MatchTrade(st, s, b, trade_qty) ==
    [txs |-> [st.txs EXCEPT
                 ![b] = WithUsedQuantity(st.txs[b],
                                         UsedQuantity(st.txs[b]) + trade_qty),
                 ![s] = [st.txs[s] EXCEPT !.quantity = @ - trade_qty]],
     pnls |-> Append(st.pnls, (st.txs[s].price - st.txs[b].price) * trade_qty)]

RECURSIVE MatchBuys(_, _, _)

\* lines 254-255 and 293-294: the sell is done when nothing of it is left
AfterTrade(st, s, buys) ==
    IF st.txs[s].quantity <= 0 THEN st ELSE MatchBuys(st, s, buys)

\* lines 242-255 and 280-294: the sell at position s against the buys in order
MatchBuys(st, s, buys) ==
    IF buys = <<>> THEN st
    ELSE IF UsedQuantity(st.txs[Head(buys)]) < st.txs[Head(buys)].quantity
    THEN AfterTrade(
             MatchTrade(st, s, Head(buys),
                        Min(st.txs[s].quantity,
                            st.txs[Head(buys)].quantity
                                - UsedQuantity(st.txs[Head(buys)]))),
             s, Tail(buys))
    ELSE MatchBuys(st, s, Tail(buys))

\* lines 240 and 279: the sells of one symbol in order
RECURSIVE MatchSells(_, _, _)
MatchSells(st, sells, buys) ==
    IF sells = <<>> THEN st
    ELSE MatchSells(MatchBuys(st, Head(sells), buys), Tail(sells), buys)

\* lines 236-238 and 275-277: the symbols in order
RECURSIVE MatchSymbols(_, _)
MatchSymbols(st, symbols) ==
    IF symbols = <<>> THEN st
    ELSE MatchSymbols(
             MatchSells(st, PositionsOf(st.txs, Head(symbols), "SELL"),
                        PositionsOf(st.txs, Head(symbols), "BUY")),
             Tail(symbols))

\* the matching loop of calculate_win_rate and calculate_profit_factor: the
\* P&L of every trade, and the transaction dicts as the loop leaves them
MatchTransactions(txs) ==
    MatchSymbols([txs |-> txs, pnls |-> <<>>], Symbols(txs))

\* calculate_win_rate, lines 247-249 and 257
WinRateOf(pnls) ==
    IF Len(pnls) > 0
    THEN Ratio(Cardinality({i \in DOMAIN pnls : pnls[i] > 0}), Len(pnls))
    ELSE ZeroRatio

\* calculate_profit_factor, lines 285-288 and 296
ProfitFactorOf(gross_profit, gross_loss) ==
    IF gross_loss > 0 THEN Ratio(gross_profit, gross_loss) ELSE ZeroRatio

GrossProfit(pnls) ==
    SeqSum([i \in DOMAIN pnls |-> IF pnls[i] > 0 THEN pnls[i] ELSE 0])

GrossLoss(pnls) ==
    SeqSum([i \in DOMAIN pnls |-> IF pnls[i] > 0 THEN 0 ELSE Abs(pnls[i])])

\* the value a matcher returns and the transaction list it leaves
WinRateReturned(st) ==
    [value |-> WinRateOf(st.pnls), transaction_history |-> st.txs]

ProfitFactorReturned(st) ==
    [value |-> ProfitFactorOf(GrossProfit(st.pnls), GrossLoss(st.pnls)),
     transaction_history |-> st.txs]

\* calculate_win_rate
CalculateWinRate(transaction_history) ==
    IF transaction_history = <<>>
    THEN [value |-> ZeroRatio, transaction_history |-> transaction_history]
    ELSE WinRateReturned(MatchTransactions(transaction_history))

\* calculate_profit_factor
CalculateProfitFactor(transaction_history) ==
    IF transaction_history = <<>>
    THEN [value |-> ZeroRatio, transaction_history |-> transaction_history]
    ELSE ProfitFactorReturned(MatchTransactions(transaction_history))

\* sorted(txs, key=date) is stable: a transaction goes behind those of its date
RECURSIVE InsertByDate(_, _)
InsertByDate(sorted, tx) ==
    IF sorted = <<>> THEN <<tx>>
    ELSE IF Last(sorted).date <= tx.date THEN Append(sorted, tx)
    ELSE Append(InsertByDate(SubSeq(sorted, 1, Len(sorted) - 1), tx),
                Last(sorted))

RECURSIVE SortByDate(_)
SortByDate(txs) ==
    IF txs = <<>> THEN <<>>
    ELSE InsertByDate(SortByDate(SubSeq(txs, 1, Len(txs) - 1)), Last(txs))

\* _calculate_security_performance, lines 340-342 and 350-352: the quantity
\* of a transaction, derived from total_value / price when it is 0
QuantityOrDerived(tx) ==
    IF tx.quantity = 0
    THEN (tx.total_value * PriceUnitsPerCent) \div tx.price
    ELSE tx.quantity

\* the state of _calculate_security_performance before the first transaction;
\* trades lists the matches made, and `tx' is the position of a transaction
\* in the sorted list (both are kept for inspection only)
NoTrades ==
    [inventory |-> <<>>, total_pnl |-> 0, total_trades |-> 0,
     winning_trades |-> 0, buy_value |-> 0, sell_value |-> 0, trades |-> <<>>]

\* lines 343-347: a buy is added to the inventory
AddToInventory(f, tx, k) ==
    [f EXCEPT !.inventory =
        Append(@, [date |-> tx.date, price |-> tx.price,
                   quantity |-> QuantityOrDerived(tx), tx |-> k])]

\* a trade that realizes the whole proceeds
TradeProceeds(sell_price, lot_price, trade_qty) == sell_price * trade_qty

\* line 360: the P&L of one portion
TradePnl(sell_price, lot_price, trade_qty) ==
    (sell_price - lot_price) * trade_qty

\* lines 360-374: trade_qty shares of the sell at position k are matched
\* against the oldest lot, with P&L pnl
MatchOldest(f, oldest_buy, sell_price, trade_qty, pnl, k) ==
    [inventory |-> IF oldest_buy.quantity - trade_qty <= 0
                   THEN Tail(f.inventory)
                   ELSE [f.inventory EXCEPT ![1].quantity = @ - trade_qty],
     total_pnl |-> f.total_pnl + pnl,
     total_trades |-> f.total_trades + 1,
     winning_trades |-> f.winning_trades + (IF pnl > 0 THEN 1 ELSE 0),
     buy_value |-> f.buy_value + oldest_buy.price * trade_qty,
     sell_value |-> f.sell_value + sell_price * trade_qty,
     trades |-> Append(f.trades,
                       [sell |-> k, lot |-> oldest_buy.tx,
                        quantity |-> trade_qty, pnl |-> pnl])]

\* lines 355-374: while sell_qty > 0 and inventory
RECURSIVE SellFromInventory(_, _, _, _)
SellFromInventory(f, sell_price, sell_qty, k) ==
    IF sell_qty <= 0 \/ f.inventory = <<>> THEN f
    ELSE SellFromInventory(
             MatchOldest(f, Head(f.inventory), sell_price,
                         Min(sell_qty, Head(f.inventory).quantity),
                         TradePnl(sell_price, Head(f.inventory).price,
                                  Min(sell_qty, Head(f.inventory).quantity)),
                         k),
             sell_price,
             sell_qty - Min(sell_qty, Head(f.inventory).quantity), k)

\* lines 337-374: the transactions from position k on
RECURSIVE TrackInventory(_, _, _)
TrackInventory(f, txs_sorted, k) ==
    IF k > Len(txs_sorted) THEN f
    ELSE IF txs_sorted[k].action = "BUY"
    THEN TrackInventory(AddToInventory(f, txs_sorted[k], k), txs_sorted, k + 1)
    ELSE TrackInventory(
             SellFromInventory(f, txs_sorted[k].price,
                               QuantityOrDerived(txs_sorted[k]), k),
             txs_sorted, k + 1)

\* min(buys, key=date) and max(sells, key=date): the first of the extreme ones
FirstDate(txs) == CHOOSE d \in {txs[i].date : i \in DOMAIN txs} :
                      \A i \in DOMAIN txs : d <= txs[i].date

LastDate(txs) == CHOOSE d \in {txs[i].date : i \in DOMAIN txs} :
                     \A i \in DOMAIN txs : txs[i].date <= d

\* lines 382-390
HoldingDays(buys, sells) ==
    (IF sells # <<>> THEN LastDate(sells) ELSE LastDate(buys)) - FirstDate(buys)

\* lines 376-412: the SecurityPerformance of the tracked inventory, None when
\* nothing was matched.  total_return is the fraction (the code reports it
\* times 100); the annualized return (a float power) is not computed
PerformanceOf(f, company_id, txs) ==
    IF f.buy_value = 0 THEN None
    ELSE Some([company_id |-> company_id,
               total_return |-> Ratio(f.sell_value - f.buy_value, f.buy_value),
               win_rate |-> IF f.total_trades > 0
                            THEN Ratio(f.winning_trades, f.total_trades)
                            ELSE ZeroRatio,
               total_trades |-> f.total_trades,
               holding_period_days |->
                   HoldingDays(SelectSeq(txs, LAMBDA t : t.action = "BUY"),
                               SelectSeq(txs, LAMBDA t : t.action = "SELL")),
               total_pnl |-> f.total_pnl])

\* the transactions of one security, in list order
SecurityTransactions(transaction_history, company_id) ==
    SelectSeq(transaction_history, LAMBDA t : t.company_id = company_id)

\* _calculate_security_performance, lines 327-374: the inventory tracking
SecurityInventory(txs) == TrackInventory(NoTrades, SortByDate(txs), 1)

\* _calculate_security_performance
CalculateSecurityPerformance(company_id, txs) ==
    PerformanceOf(SecurityInventory(txs), company_id, txs)

\* performances.sort(key=total_return, reverse=True) is stable: a performance
\* goes behind those whose total return is not lower
RECURSIVE InsertByReturn(_, _)
InsertByReturn(sorted, perf) ==
    IF sorted = <<>> THEN <<perf>>
    ELSE IF ~RatioGreater(perf.total_return, Last(sorted).total_return)
    THEN Append(sorted, perf)
    ELSE Append(InsertByReturn(SubSeq(sorted, 1, Len(sorted) - 1), perf),
                Last(sorted))

RECURSIVE SortByReturn(_)
SortByReturn(performances) ==
    IF performances = <<>> THEN <<>>
    ELSE InsertByReturn(SortByReturn(SubSeq(performances, 1,
                                            Len(performances) - 1)),
                        Last(performances))

Reverse(s) == [i \in DOMAIN s |-> s[Len(s) + 1 - i]]

\* lines 435-438: the performances in the order the futures complete, without
\* the securities that have none
RECURSIVE Performances(_, _)
Performances(transaction_history, completed) ==
    IF completed = <<>> THEN <<>>
    ELSE CalculateSecurityPerformance(
             Head(completed),
             SecurityTransactions(transaction_history, Head(completed)))
         \o Performances(transaction_history, Tail(completed))

\* get_top_winners_losers, line 414: top_n: int = 10
DefaultTopN == 10

\* lines 443-446
WinnersLosers(performances, top_n) ==
    [winners |-> SubSeq(performances, 1, Min(top_n, Len(performances))),
     losers |-> IF Len(performances) >= top_n
                THEN Reverse(SubSeq(performances,
                                    Len(performances) - top_n + 1,
                                    Len(performances)))
                ELSE <<>>]

\* the orders in which the futures of the securities can complete
CompletionOrders(symbols) ==
    {order \in [DOMAIN symbols -> DOMAIN symbols] :
        \A i, j \in DOMAIN symbols : i # j => order[i] # order[j]}

\* get_top_winners_losers, for one order of completion (a permutation of the
\* positions of the securities)
GetTopWinnersLosers(transaction_history, top_n, order) ==
    IF transaction_history = <<>> THEN [winners |-> <<>>, losers |-> <<>>]
    ELSE WinnersLosers(
             SortByReturn(
                 Performances(transaction_history,
                              [i \in DOMAIN order |->
                                  Symbols(transaction_history)[order[i]]])),
             top_n)

\* the outcome of a call: an exception, or a returned value
Raise(error) == [raised |-> TRUE, error |-> error]

Return(value) == [raised |-> FALSE, value |-> value]

\* a float statistic of a non-empty returns series (a standard deviation, a
\* percentile), which is carried as a term and not evaluated
StatisticOf(name, returns) == [statistic |-> name, returns |-> returns]

\* calculate_returns_series: total_value.pct_change() of the snapshots in
\* date order, each return as the pair <<change, previous value>>; the first
\* row and a 0 / 0 are NaN and dropped
CalculateReturnsSeries(portfolio_history) ==
    IF Len(portfolio_history) < 2 THEN <<>>
    ELSE LET df == SortByDate(portfolio_history)
             daily_return == [i \in 1..(Len(df) - 1) |->
                                 <<df[i + 1].total_value - df[i].total_value,
                                   df[i].total_value>>]
         IN  SelectSeq(daily_return, LAMBDA r : r # <<0, 0>>)

\* calculate_drawdown_series, lines 124-125 and 132-140: the row of the
\* snapshot at position i, after the rows before it.  The drawdown is the
\* pair <<total_value - peak, peak>> (the code reports the quotient times
\* 100); the peak of a ledger's snapshots is positive
DrawdownRow(rows, snapshot, peak) ==
    [date |-> snapshot.date, total_value |-> snapshot.total_value,
     peak |-> peak,
     drawdown |-> <<snapshot.total_value - peak, peak>>,
     drawdown_duration |->
         IF snapshot.total_value < peak
         THEN IF rows # <<>> /\ Last(rows).total_value < Last(rows).peak
              THEN Last(rows).drawdown_duration + 1
              ELSE 0
         ELSE 0]

RECURSIVE DrawdownRows(_, _, _)
DrawdownRows(rows, df, i) ==
    IF i > Len(df) THEN rows
    ELSE DrawdownRows(
             Append(rows,
                    DrawdownRow(rows, df[i],
                                IF rows # <<>>
                                       /\ Last(rows).peak > df[i].total_value
                                THEN Last(rows).peak ELSE df[i].total_value)),
             df, i + 1)

\* calculate_drawdown_series: pd.DataFrame([]) has no column 'date', so
\* df['date'] (line 120) raises KeyError for an empty history
CalculateDrawdownSeries(portfolio_history) ==
    IF portfolio_history = <<>> THEN Raise("KeyError")
    ELSE Return(DrawdownRows(<<>>, SortByDate(portfolio_history), 1))

\* drawdown a is deeper than drawdown b (a < b as quotients)
Deeper(a, b) == RatGreater(-a[1], a[2], -b[1], b[2])

\* drawdown >= -0.01 (percent): within 1% of a percent of the peak
NearPeak(row) == ~RatGreater(-row.drawdown[1], row.drawdown[2], 1, 10000)

\* calculate_max_drawdown, lines 192-218, on a non-empty drawdown frame
MaxDrawdownOf(rows) ==
    LET max_dd_idx == CHOOSE i \in DOMAIN rows :
                          /\ \A j \in DOMAIN rows :
                                 ~Deeper(rows[j].drawdown, rows[i].drawdown)
                          /\ \A j \in 1..(i - 1) :
                                 Deeper(rows[i].drawdown, rows[j].drawdown)
        before == {i \in 1..max_dd_idx : NearPeak(rows[i])}
        after == {i \in max_dd_idx..Len(rows) : NearPeak(rows[i])}
    IN  [max_drawdown |-> rows[max_dd_idx].drawdown,
         max_drawdown_duration |->
             SetMax({rows[i].drawdown_duration : i \in DOMAIN rows}),
         max_drawdown_start |->
             rows[IF before = {} THEN max_dd_idx ELSE SetMax(before)].date,
         max_drawdown_end |-> rows[max_dd_idx].date,
         recovery_date |->
             IF after = {} THEN None
             ELSE Some(rows[CHOOSE i \in after : \A j \in after : i <= j].date)]

\* calculate_max_drawdown: the exception of calculate_drawdown_series (line
\* 181) is not caught
MaxDrawdownOutcome(drawdown_df) ==
    IF drawdown_df.raised THEN drawdown_df
    ELSE Return(MaxDrawdownOf(drawdown_df.value))

CalculateMaxDrawdown(portfolio_history) ==
    MaxDrawdownOutcome(CalculateDrawdownSeries(portfolio_history))

\* calculate_volatility, calculate_var: 0.0 for an empty returns series
CalculateVolatility(returns) ==
    IF Len(returns) = 0 THEN 0 ELSE StatisticOf("volatility", returns)

CalculateVar(returns) ==
    IF Len(returns) = 0 THEN 0 ELSE StatisticOf("var_95", returns)

\* calculate_sharpe_ratio, calculate_sortino_ratio: 0.0 for an empty series
CalculateSharpeRatio(returns) ==
    IF Len(returns) = 0 THEN 0 ELSE StatisticOf("sharpe_ratio", returns)

CalculateSortinoRatio(returns) ==
    IF Len(returns) = 0 THEN 0 ELSE StatisticOf("sortino_ratio", returns)

\* calculate_calmar_ratio: 0.0 when the maximum drawdown is 0
CalculateCalmarRatio(returns, max_drawdown) ==
    IF max_drawdown[1] = 0 THEN 0
    ELSE [statistic |-> "calmar_ratio", returns |-> returns,
          max_drawdown |-> max_drawdown]

-----------------------------------------------------------------------------
(* run_backtest *)

CentsPerUnit == 100

QuarterEnds == {90, 181, 273, 365}

YearEnds == {365}

RECURSIVE SortedSeq(_)
SortedSeq(S) ==
    IF S = {} THEN <<>>
    ELSE LET m == SetMax(S) IN Append(SortedSeq(S \ {m}), m)

\* pd.date_range(start, end, freq): the period ends within [start, end], in order
\* (dates are day numbers of one year, 1 being January 1st)
DateRange(start_date, end_date, frequency) ==
    LET ends == IF frequency = "quarterly" THEN QuarterEnds ELSE YearEnds
    IN  SortedSeq({d \in ends : start_date <= d /\ d <= end_date})

Faults == {"none", "query", "lookup"}

NoCall == [operation |-> "none"]

NoSelection == [date |-> 0, top_stocks |-> <<>>, weights |-> <<>>]

\* run_backtest, lines 612-617 and 628-636: selection, ranking, weighting and
\* rebalance for one date.  fault = "query": the selection query raises;
\* fault = "lookup": the companies table cannot be read during the rebalance
ProcessDate(P, sel, date, fault) ==
    IF fault = "query" THEN [portfolio |-> [P EXCEPT !.raised = TRUE],
                             selection |-> sel]
    ELSE
    LET found == QueryForRebalance(request, date)
        ranked == RankCompanies(found, request.ranking_metrics)
        top_stocks == TopStocks(ranked, request.portfolio_size)
        w == CalculateWeights(top_stocks, request.weighting_method)
        logged == IF request.weighting_method \in KnownMethods THEN P
                  ELSE LogEvent(P, "weights_error", date, 0)
        done == ExecuteRebalance([logged EXCEPT !.db_down = (fault = "lookup")],
                                 w, date)
    IN  IF found = <<>>
        THEN [portfolio |-> LogEvent(P, "no_companies", date, 0),
              selection |-> sel]
        ELSE [portfolio |-> [done EXCEPT !.db_down = FALSE],
              selection |-> [date |-> date, top_stocks |-> top_stocks,
                             weights |-> w]]

\* run_backtest, lines 591-620: initialisation, schedule and initial purchase;
\* an exception leaves run_backtest
InitialConstruction ==
    /\ pc = "start"
    /\ \E fault \in Faults :
          LET funded == [InitializePortfolio EXCEPT
                            !.cash_balance = request.initial_capital * CentsPerUnit]
              r == ProcessDate(funded, NoSelection, request.start_date, fault)
          IN  /\ rebalance_dates' = DateRange(request.start_date, request.end_date,
                                              request.rebalancing_frequency)
              /\ selection' = r.selection
              /\ IF r.portfolio.raised
                 THEN /\ portfolio' = LogEvent([r.portfolio EXCEPT !.raised = FALSE],
                                               "backtest_failed", request.start_date, 0)
                      /\ pc' = "failed"
                 ELSE /\ portfolio' = r.portfolio
                      /\ pc' = "periodic"
    /\ next_date' = 1
    /\ UNCHANGED <<call, stock_prices, fundamentals, companies, today, request, results>>

\* a loop that gives the run up at the first exception
PeriodicOutcomeFatal(P, date) ==
    [portfolio |-> IF P.raised
                   THEN LogEvent([P EXCEPT !.raised = FALSE],
                                 "rebalance_error", date, 0)
                   ELSE P,
     pc |-> IF P.raised THEN "failed" ELSE "periodic"]

\* run_backtest, lines 637-639: the exception of one date is logged and the
\* loop continues with the next date
PeriodicOutcome(P, date) ==
    [portfolio |-> IF P.raised
                   THEN LogEvent([P EXCEPT !.raised = FALSE],
                                 "rebalance_error", date, 0)
                   ELSE P,
     pc |-> "periodic"]

\* run_backtest, lines 622-639: one iteration of the periodic loop
PeriodicRebalance ==
    /\ pc = "periodic"
    /\ next_date <= Len(rebalance_dates)
    /\ LET date == rebalance_dates[next_date]
       IN  IF date <= request.start_date
           THEN UNCHANGED <<portfolio, selection, pc>>
           ELSE \E fault \in Faults :
                  LET r == ProcessDate(LogEvent(portfolio, "rebalance_date", date, 0),
                                       selection, date, fault)
                      out == PeriodicOutcome(r.portfolio, date)
                  IN  /\ selection' = r.selection
                      /\ portfolio' = out.portfolio
                      /\ pc' = out.pc
    /\ next_date' = next_date + 1
    /\ UNCHANGED <<call, stock_prices, fundamentals, companies, today, request,
                   rebalance_dates, results>>

\* a liquidation that sells a holding without a price at its average cost
LiquidateHoldingAtCost(P, h, end_date) ==
    LET price == GetCurrentPrice(h.company_id, end_date)
    IN  ExecuteSell(P, h.company_id, h.quantity,
                    IF price > 0 THEN price ELSE h.avg_price, end_date)

\* run_backtest, lines 653-663: one holding of the final liquidation
LiquidateHolding(P, h, end_date) ==
    LET price == GetCurrentPrice(h.company_id, end_date)
    IN  IF price > 0
        THEN ExecuteSell(P, h.company_id, h.quantity, price, end_date)
        ELSE LogEvent(P, "cannot_liquidate", end_date, h.company_id)

\* run_backtest, lines 652-663: every holding in turn
RECURSIVE Liquidate(_, _, _)
Liquidate(P, items, end_date) ==
    IF items = <<>> THEN P
    ELSE Liquidate(LiquidateHolding(P, Head(items), end_date),
                   Tail(items), end_date)

\* run_backtest, lines 641-670: the final liquidation
FinalLiquidation ==
    /\ pc = "periodic"
    /\ next_date > Len(rebalance_dates)
    /\ portfolio' = Liquidate(LogEvent(portfolio, "final_liquidation",
                                       request.end_date, 0),
                              portfolio.holdings, request.end_date)
    /\ pc' = "report"
    /\ UNCHANGED <<call, stock_prices, fundamentals, companies, today, request, selection,
                   rebalance_dates, next_date, results>>

NoResults == [returned |-> FALSE]

CountAction(txs, action) ==
    Cardinality({i \in DOMAIN txs : txs[i].action = action})

\* _calculate_trading_metrics, line 469: calculate_profit_factor is given
\* the list that calculate_win_rate has left
ProfitFactorAfter(win, factor) ==
    [win_rate |-> win.value, profit_factor |-> factor.value,
     transaction_history |-> factor.transaction_history]

TradingMetricsAfter(win) ==
    ProfitFactorAfter(win, CalculateProfitFactor(win.transaction_history))

\* _calculate_trading_metrics, with the transaction list as it leaves it
CalculateTradingMetrics(transaction_history) ==
    TradingMetricsAfter(CalculateWinRate(transaction_history))

\* run_backtest, lines 683-702: the results before the metrics are added
PreparedResults ==
    [returned |-> TRUE,
     initial_capital |-> request.initial_capital * CentsPerUnit,
     final_value |-> portfolio.cash_balance,
     total_profit_loss |-> portfolio.cash_balance
                             - request.initial_capital * CentsPerUnit,
     total_transactions |-> Len(portfolio.transaction_history),
     buy_transactions |->
         CountAction(portfolio.transaction_history, "BUY"),
     sell_transactions |->
         CountAction(portfolio.transaction_history, "SELL"),
     start_date |-> request.start_date,
     end_date |-> request.end_date,
     rebalance_dates |-> rebalance_dates,
     transaction_history |-> portfolio.transaction_history,
     portfolio_history |-> portfolio.portfolio_history,
     final_portfolio |->
         [holdings |-> portfolio.holdings,
          cash_balance |-> portfolio.cash_balance,
          total_value |-> portfolio.cash_balance]]

\* calculate_comprehensive_metrics, lines 523-585: the entries added to the
\* results, of those the model computes (the float statistics of the returns
\* series and the chart data are left out)
ComprehensiveMetrics(trading, winners_losers, drawdown_data) ==
    [win_rate |-> trading.win_rate,
     profit_factor |-> trading.profit_factor,
     total_trades |-> Len(trading.transaction_history),
     max_drawdown |-> drawdown_data.value.max_drawdown,
     max_drawdown_duration |-> drawdown_data.value.max_drawdown_duration,
     top_winners |-> winners_losers.winners,
     top_losers |-> winners_losers.losers]

\* run_backtest, lines 672-702: the results are prepared; the return
\* percentages divide by the initial capital
Report ==
    /\ pc = "report"
    /\ IF request.initial_capital = 0
       THEN /\ pc' = "failed"
            /\ results' = results
       ELSE /\ pc' = "analytics"
            /\ results' = [PreparedResults EXCEPT !.returned = FALSE]
    /\ UNCHANGED <<call, stock_prices, fundamentals, companies, today, request,
                   portfolio, selection, rebalance_dates, next_date>>

\* run_backtest, lines 705-708: calculate_comprehensive_metrics adds its
\* entries to the results, which are returned.  It returns {} without
\* snapshots (lines 477-478); otherwise the trading-metrics task rewrites the
\* dicts of the transaction list, which is the list of the ledger and of the
\* results (line 695), and the winners/losers task reads the list before or
\* after that, its securities completing in any order
CalculateComprehensiveMetrics ==
    /\ pc = "analytics"
    /\ pc' = "done"
    /\ IF portfolio.portfolio_history = <<>>
       THEN /\ results' = [results EXCEPT !.returned = TRUE]
            /\ portfolio' = portfolio
       ELSE \E trading \in {CalculateTradingMetrics(portfolio.transaction_history)} :
            \E seen \in {portfolio.transaction_history,
                         trading.transaction_history} :
            \E order \in CompletionOrders(Symbols(seen)) :
            \E winners_losers \in {GetTopWinnersLosers(seen, DefaultTopN, order)},
               drawdown_data \in {CalculateMaxDrawdown(portfolio.portfolio_history)} :
               /\ results' =
                    ComprehensiveMetrics(trading, winners_losers, drawdown_data)
                    @@ [results EXCEPT
                           !.returned = TRUE,
                           !.transaction_history = trading.transaction_history]
               /\ portfolio' =
                    [portfolio EXCEPT
                        !.transaction_history = trading.transaction_history]
    /\ UNCHANGED <<call, stock_prices, fundamentals, companies, today, request,
                   selection, rebalance_dates, next_date>>

-----------------------------------------------------------------------------
(* The stored data and the requests the model explores *)

MaxPortfolioSize == 2

MaxCapital == 2

PriceRows(company_id, history) ==
    {[company_id |-> company_id, date |-> e[1], close |-> e[2],
      adjusted_close |-> e[3]] : e \in history}

FundamentalRows(company_id, history) ==
    [i \in DOMAIN history |->
        [company_id |-> company_id, report_date |-> history[i].report_date,
         period_type |-> history[i].period_type,
         market_cap |-> history[i].market_cap, roce |-> history[i].roce,
         roe |-> history[i].roe, pat |-> history[i].pat]]

\* The stored histories of one company: the price rows as <<date, close,
\* adjusted_close>> and the fundamental rows without the company id
CompanyProfiles ==
    { \* quoted throughout at one price
      [prices |-> {<<60, Some(1000), None>>, <<80, Some(1000), None>>,
                   <<181, Some(1000), None>>, <<200, Some(1000), None>>},
       fundamentals |->
         <<[report_date |-> 50, period_type |-> "Q", market_cap |-> Some(30000000),
            roce |-> Some(20), roe |-> Some(10), pat |-> Some(5)]>>],
      \* adjusted closes with fractions of a cent, rising
      [prices |-> {<<80, Some(2000), Some(1900)>>, <<90, Some(2700), Some(2625)>>,
                   <<181, Some(3100), Some(3000)>>, <<200, None, Some(3000)>>},
       fundamentals |->
         <<[report_date |-> 50, period_type |-> "Q", market_cap |-> Some(30000000),
            roce |-> Some(20), roe |-> Some(10), pat |-> Some(5)]>>],
      \* quoted at the start only: no price within 90 days of the later dates
      [prices |-> {<<80, Some(2100), None>>},
       fundamentals |->
         <<[report_date |-> 50, period_type |-> "Q", market_cap |-> Some(50000000),
            roce |-> Some(30), roe |-> Some(10), pat |-> Some(5)]>>],
      \* a row without any price at the second quarter end; a quarterly and an
      \* annual report of the same date, later than the start
      [prices |-> {<<75, Some(1250), None>>, <<181, None, None>>,
                   <<200, Some(1500), None>>},
       fundamentals |->
         <<[report_date |-> 50, period_type |-> "Q", market_cap |-> Some(30000000),
            roce |-> Some(20), roe |-> Some(12), pat |-> Some(5)],
           [report_date |-> 85, period_type |-> "Q", market_cap |-> Some(10000000),
            roce |-> Some(25), roe |-> Some(12), pat |-> Some(5)],
           [report_date |-> 85, period_type |-> "A", market_cap |-> Some(10000000),
            roce |-> Some(25), roe |-> Some(12), pat |-> Some(5)]>>],
      \* no market capitalisation and no ratios
      [prices |-> {<<80, Some(1250), None>>, <<170, Some(1000), None>>,
                   <<200, Some(1000), None>>},
       fundamentals |->
         <<[report_date |-> 50, period_type |-> "Q", market_cap |-> None,
            roce |-> None, roe |-> None, pat |-> Some(5)]>>] }

RECURSIVE Concat(_, _)
Concat(f, n) == IF n = 0 THEN <<>> ELSE Concat(f, n - 1) \o f[n]

FilterChoices ==
    { [min_market_cap |-> None, max_market_cap |-> None, min_roce |-> None,
       pat_positive |-> FALSE],
      [min_market_cap |-> Some(2), max_market_cap |-> None, min_roce |-> Some(15),
       pat_positive |-> TRUE] }

Schedules ==
    { [frequency |-> "quarterly", filters |-> flt] : flt \in FilterChoices }
    \cup { [frequency |-> "yearly",
            filters |-> [min_market_cap |-> None, max_market_cap |-> None,
                         min_roce |-> None, pat_positive |-> FALSE]] }

Requests ==
    { [start_date |-> 80, end_date |-> e, portfolio_size |-> n,
       rebalancing_frequency |-> sch.frequency, weighting_method |-> m,
       initial_capital |-> c,
       min_market_cap |-> sch.filters.min_market_cap,
       max_market_cap |-> sch.filters.max_market_cap,
       min_roce |-> sch.filters.min_roce,
       pat_positive |-> sch.filters.pat_positive,
       ranking_metrics |-> <<<<[metric |-> "roe", higher_is_better |-> TRUE]>>>>] :
        e \in {60, 181, 200}, n \in 1..MaxPortfolioSize,
        m \in KnownMethods \cup {"momentum"},
        c \in 1..MaxCapital, sch \in Schedules }

TypeOK ==
    /\ pc \in {"start", "periodic", "report", "analytics", "done", "failed"}
    /\ request \in Requests
    /\ portfolio.cash_balance \in Int
    /\ next_date \in Nat

\* the dates on which a run may take place: the end of the request's range,
\* and a date more than 90 days after the last stored price
WallClockDates == {200, 500}

Init ==
    /\ \E profile \in [Companies -> CompanyProfiles] :
          /\ stock_prices =
                UNION {PriceRows(c, profile[c].prices) : c \in Companies}
          /\ fundamentals =
                Concat([c \in Companies |->
                           FundamentalRows(c, profile[c].fundamentals)],
                       NumCompanies)
    /\ companies = [c \in Companies |-> [is_active |-> TRUE]]
    /\ today \in WallClockDates
    /\ request \in Requests
    /\ portfolio = InitializePortfolio
    /\ selection = NoSelection
    /\ rebalance_dates = <<>>
    /\ next_date = 1
    /\ pc = "start"
    /\ results = NoResults
    /\ call = NoCall

Next ==
    \/ InitialConstruction
    \/ PeriodicRebalance
    \/ FinalLiquidation
    \/ Report
    \/ CalculateComprehensiveMetrics

Spec == Init /\ [][Next]_vars

-----------------------------------------------------------------------------
(* The ledger driven through its own operations: execute_buy, execute_sell
   and execute_rebalance called in any order with any arguments.  Buys are
   called with a positive quantity, as execute_rebalance calls them
   (line 413); sells are called with any quantity, held or not. *)

MaxQuantity == 3

MaxLedgerCalls == 3

LedgerCash == 100

LedgerPrices == {0, 1250}

LedgerDates == {90}

LedgerWeights ==
    { <<[company_id |-> 1, weight |-> WeightUnit]>>,
      <<[company_id |-> 1, weight |-> WeightUnit \div 2],
        [company_id |-> 2, weight |-> WeightUnit \div 2]>> }

\* every call leaves a transaction or a log entry
LedgerCalls == Len(portfolio.transaction_history) + Len(portfolio.log)

LedgerInit ==
    /\ \E profile \in [Companies -> {p \in CompanyProfiles :
                                        Cardinality(p.prices) = 4}] :
          /\ stock_prices =
                UNION {PriceRows(c, profile[c].prices) : c \in Companies}
          /\ fundamentals =
                Concat([c \in Companies |->
                           FundamentalRows(c, profile[c].fundamentals)],
                       NumCompanies)
    /\ companies = [c \in Companies |-> [is_active |-> TRUE]]
    /\ today = 200
    /\ request \in {r \in Requests :
                       /\ r.end_date = 200 /\ r.portfolio_size = 1
                       /\ r.weighting_method = "equal" /\ r.initial_capital = 1
                       /\ r.rebalancing_frequency = "yearly"}
    /\ portfolio = [InitializePortfolio EXCEPT !.cash_balance = LedgerCash]
    /\ selection = NoSelection
    /\ rebalance_dates = <<>>
    /\ next_date = 1
    /\ pc = "ledger"
    /\ results = NoResults
    /\ call = NoCall

\* the arguments of a call of execute_buy or execute_sell
Call(operation, company_id, quantity, price, date) ==
    [operation |-> operation, company_id |-> company_id, quantity |-> quantity,
     price |-> price, date |-> date]

LedgerUnchanged ==
    UNCHANGED <<stock_prices, fundamentals, companies, today, request, selection,
                rebalance_dates, next_date, pc, results>>

LedgerBuy ==
    /\ pc = "ledger"
    /\ LedgerCalls < MaxLedgerCalls
    /\ \E company_id \in Companies, quantity \in 1..MaxQuantity,
          price \in LedgerPrices, date \in LedgerDates :
          /\ portfolio' = ExecuteBuy(portfolio, company_id, quantity, price, date)
          /\ call' = Call("execute_buy", company_id, quantity, price, date)
    /\ LedgerUnchanged

LedgerSell ==
    /\ pc = "ledger"
    /\ LedgerCalls < MaxLedgerCalls
    /\ \E company_id \in Companies, quantity \in 0..MaxQuantity,
          price \in LedgerPrices, date \in LedgerDates :
          /\ portfolio' = ExecuteSell(portfolio, company_id, quantity, price, date)
          /\ call' = Call("execute_sell", company_id, quantity, price, date)
    /\ LedgerUnchanged

LedgerRebalance ==
    /\ pc = "ledger"
    /\ LedgerCalls < MaxLedgerCalls
    /\ \E w \in LedgerWeights, date \in LedgerDates :
          /\ portfolio' = ExecuteRebalance(portfolio, w, date)
          /\ call' = Call("execute_rebalance", 0, 0, 0, date)
    /\ LedgerUnchanged

LedgerNext == LedgerBuy \/ LedgerSell \/ LedgerRebalance

LedgerSpec == LedgerInit /\ [][LedgerNext]_vars

-----------------------------------------------------------------------------
(* The performance metrics on their own: the methods of PerformanceMetrics
   called in any order, and repeatedly, on the histories of a ledger that
   execute_buy, execute_sell and record_portfolio_snapshot have filled.
   calculate_comprehensive_metrics runs calculate_win_rate and
   calculate_profit_factor (one task) and get_top_winners_losers (another
   task) on the same transaction list at once (lines 484-493); every order of
   these calls is an interleaving of the two tasks at the grain of a call. *)

MaxTrades == 3

MaxSnapshots == 2

MaxMatcherCalls == 2

MetricsCash == 600000

MetricsDates == {90, 181}

\* the buys placed: <<company_id, quantity, price>>
BuyOrders == {<<1, 2, 1000>>, <<1, 1, 1250>>, <<2, 2, 1000>>,
              <<2, 100, 500000>>}

\* the sells placed, of any company held: <<quantity, price>>
SellOrders == {<<1, 1249>>, <<3, 900>>, <<60, 700000>>}

SnapshotDates == {181}

TopNs == {1, DefaultTopN}

StatisticNames ==
    {"calculate_returns_series", "calculate_drawdown_series",
     "calculate_max_drawdown", "calculate_volatility", "calculate_var",
     "calculate_sharpe_ratio", "calculate_sortino_ratio",
     "calculate_calmar_ratio"}

\* the values the matchers returned, call after call, and the transaction
\* list as it was when the first method was called
NoMetrics ==
    [returned |-> FALSE, transaction_history |-> <<>>,
     calculate_win_rate |-> <<>>, calculate_profit_factor |-> <<>>,
     get_top_winners_losers |-> <<>>]

MetricsInit ==
    /\ \E profile \in [Companies -> {p \in CompanyProfiles :
                                        \A e \in p.prices : e[2] = Some(1000)}] :
          /\ stock_prices =
                UNION {PriceRows(c, profile[c].prices) : c \in Companies}
          /\ fundamentals =
                Concat([c \in Companies |->
                           FundamentalRows(c, profile[c].fundamentals)],
                       NumCompanies)
    /\ companies = [c \in Companies |-> [is_active |-> TRUE]]
    /\ today = 200
    /\ request \in {r \in Requests :
                       /\ r.end_date = 200 /\ r.portfolio_size = 1
                       /\ r.weighting_method = "equal" /\ r.initial_capital = 1
                       /\ r.rebalancing_frequency = "yearly"}
    /\ portfolio = [InitializePortfolio EXCEPT !.cash_balance = MetricsCash]
    /\ selection = NoSelection
    /\ rebalance_dates = <<>>
    /\ next_date = 1
    /\ pc = "trading"
    /\ results = NoMetrics
    /\ call = NoCall

MetricsUnchanged ==
    UNCHANGED <<stock_prices, fundamentals, companies, today, request, selection,
                rebalance_dates, next_date>>

\* the dates on which the ledger can be used next: not before its last entry
LaterDates(history) ==
    {d \in MetricsDates : history = <<>> \/ Last(history).date <= d}

MetricsBuy ==
    /\ pc = "trading"
    /\ Len(portfolio.transaction_history) < MaxTrades
    /\ \E order \in BuyOrders,
          date \in LaterDates(portfolio.transaction_history) :
          \E bought \in {ExecuteBuy(portfolio, order[1], order[2], order[3],
                                    date)} :
              /\ bought.log = portfolio.log
              /\ portfolio' = bought
    /\ UNCHANGED <<pc, results, call>>
    /\ MetricsUnchanged

MetricsSell ==
    /\ pc = "trading"
    /\ Len(portfolio.transaction_history) < MaxTrades
    /\ \E company_id \in HeldIds(portfolio.holdings), order \in SellOrders,
          date \in LaterDates(portfolio.transaction_history) :
          portfolio' = ExecuteSell(portfolio, company_id, order[1], order[2],
                                   date)
    /\ UNCHANGED <<pc, results, call>>
    /\ MetricsUnchanged

\* snapshots are recorded once the trades are made
MetricsSnapshot ==
    /\ pc \in {"trading", "snapshots"}
    /\ Len(portfolio.portfolio_history) < MaxSnapshots
    /\ \E date \in SnapshotDates :
          portfolio' = RecordPortfolioSnapshot(portfolio, date)
    /\ pc' = "snapshots"
    /\ UNCHANGED <<results, call>>
    /\ MetricsUnchanged

\* the results once a method has been called: the first call notes the
\* transaction list it is given
Entered(r) ==
    IF pc \in {"trading", "snapshots"}
    THEN [r EXCEPT !.transaction_history = portfolio.transaction_history]
    ELSE r

MatcherCalls ==
    Len(results.calculate_win_rate) + Len(results.calculate_profit_factor)
        + Len(results.get_top_winners_losers)

\* a matcher is called on the ledger's transaction list: what it returns is
\* noted, and the list is left as the matcher leaves it
CallMatcher(operation, out) ==
    /\ MatcherCalls < MaxMatcherCalls
    /\ pc' = "metrics"
    /\ call' = [operation |-> operation, value |-> out.value]
    /\ results' = [Entered(results) EXCEPT ![operation] = Append(@, out.value)]
    /\ portfolio' = [portfolio EXCEPT
                        !.transaction_history = out.transaction_history]
    /\ MetricsUnchanged

CallWinRate ==
    /\ pc \in {"trading", "snapshots", "metrics"}
    /\ CallMatcher("calculate_win_rate",
                   CalculateWinRate(portfolio.transaction_history))

CallProfitFactor ==
    /\ pc \in {"trading", "snapshots", "metrics"}
    /\ CallMatcher("calculate_profit_factor",
                   CalculateProfitFactor(portfolio.transaction_history))

CallTopWinnersLosers ==
    /\ pc \in {"trading", "snapshots", "metrics"}
    /\ \E top_n \in TopNs,
          order \in CompletionOrders(Symbols(portfolio.transaction_history)) :
          CallMatcher("get_top_winners_losers",
                      [value |-> [top_n |-> top_n,
                                  ranking |-> GetTopWinnersLosers(
                                      portfolio.transaction_history, top_n,
                                      order)],
                       transaction_history |-> portfolio.transaction_history])

\* _calculate_security_performance on the transactions of one security
CallSecurityPerformance ==
    /\ pc \in {"trading", "snapshots"}
    /\ \E company_id \in Companies :
          \E txs \in {SecurityTransactions(portfolio.transaction_history,
                                           company_id)} :
              /\ txs # <<>>
              /\ call' = [operation |-> "_calculate_security_performance",
                          company_id |-> company_id,
                          transactions |-> txs,
                          tracked |-> SecurityInventory(txs),
                          value |-> CalculateSecurityPerformance(company_id, txs)]
    /\ pc' = "called"
    /\ results' = Entered(results)
    /\ UNCHANGED portfolio
    /\ MetricsUnchanged

\* the maximum drawdown handed to calculate_calmar_ratio: that of the
\* history, 0.0 for an empty one (lines 185 and 509)
MaxDrawdownArgument(portfolio_history) ==
    IF portfolio_history = <<>> THEN ZeroRatio
    ELSE CalculateMaxDrawdown(portfolio_history).value.max_drawdown

\* a statistic of the snapshot history, the ones of a returns series being
\* given calculate_returns_series of the history (line 481)
StatisticOutcome(name, portfolio_history, returns) ==
    CASE name = "calculate_returns_series" -> Return(returns)
      [] name = "calculate_drawdown_series" ->
             CalculateDrawdownSeries(portfolio_history)
      [] name = "calculate_max_drawdown" ->
             CalculateMaxDrawdown(portfolio_history)
      [] name = "calculate_volatility" -> Return(CalculateVolatility(returns))
      [] name = "calculate_var" -> Return(CalculateVar(returns))
      [] name = "calculate_sharpe_ratio" -> Return(CalculateSharpeRatio(returns))
      [] name = "calculate_sortino_ratio" ->
             Return(CalculateSortinoRatio(returns))
      [] name = "calculate_calmar_ratio" ->
             Return(CalculateCalmarRatio(
                        returns, MaxDrawdownArgument(portfolio_history)))

CallStatistic ==
    /\ pc \in {"trading", "snapshots"}
    /\ \E name \in StatisticNames :
          call' = [operation |-> name,
                   outcome |-> StatisticOutcome(
                       name, portfolio.portfolio_history,
                       CalculateReturnsSeries(portfolio.portfolio_history))]
    /\ pc' = "called"
    /\ results' = Entered(results)
    /\ UNCHANGED portfolio
    /\ MetricsUnchanged

MetricsNext ==
    \/ MetricsBuy
    \/ MetricsSell
    \/ MetricsSnapshot
    \/ CallWinRate
    \/ CallProfitFactor
    \/ CallTopWinnersLosers
    \/ CallSecurityPerformance
    \/ CallStatistic

MetricsSpec == MetricsInit /\ [][MetricsNext]_vars

-----------------------------------------------------------------------------
(* The price resolver on its own: get_current_price called for any company
   and any date of a window around the stored price rows, over every stored
   price table.  The queries succeed (get_stock_prices turns a failed query
   into an empty frame, lines 212-214, which is not explored here). *)

FirstPriceDate == 60

LastPriceDate == 300

PriceInit ==
    /\ \E profile \in [Companies -> CompanyProfiles] :
          /\ stock_prices =
                UNION {PriceRows(c, profile[c].prices) : c \in Companies}
          /\ fundamentals =
                Concat([c \in Companies |->
                           FundamentalRows(c, profile[c].fundamentals)],
                       NumCompanies)
    /\ companies = [c \in Companies |-> [is_active |-> TRUE]]
    /\ today = 200
    /\ request \in {r \in Requests :
                       /\ r.end_date = 200 /\ r.portfolio_size = 1
                       /\ r.weighting_method = "equal" /\ r.initial_capital = 1
                       /\ r.rebalancing_frequency = "yearly"}
    /\ portfolio = InitializePortfolio
    /\ selection = NoSelection
    /\ rebalance_dates = <<>>
    /\ next_date = 1
    /\ pc = "prices"
    /\ results = NoResults
    /\ call = NoCall

ResolvePrice ==
    /\ pc = "prices"
    /\ call = NoCall
    /\ \E company_id \in Companies, as_of_date \in FirstPriceDate..LastPriceDate :
          call' = Call("get_current_price", company_id, 0,
                       GetCurrentPrice(company_id, as_of_date), as_of_date)
    /\ UNCHANGED <<stock_prices, fundamentals, companies, today, request,
                   portfolio, selection, rebalance_dates, next_date, pc, results>>

PriceNext == ResolvePrice

PriceSpec == PriceInit /\ [][PriceNext]_vars

-----------------------------------------------------------------------------
(* The ranker on its own: rank_companies called on the rows that
   query_for_rebalance finds at a date, with any ranking_metrics list of the
   request (schemas.py, lines 94-97: a list of dicts from metric to
   higher-is-better). *)

RankDates == {80, 181}

MetricDicts ==
    { <<[metric |-> "roe", higher_is_better |-> TRUE]>>,
      <<[metric |-> "roce", higher_is_better |-> FALSE]>>,
      <<[metric |-> "roe", higher_is_better |-> TRUE],
        [metric |-> "market_cap", higher_is_better |-> FALSE]>>,
      <<[metric |-> "debt_to_equity", higher_is_better |-> FALSE]>> }

MaxMetricDicts == 2

MetricLists ==
    UNION {[1..n -> MetricDicts] : n \in 0..MaxMetricDicts}

RankInit ==
    /\ \E profile \in [Companies -> CompanyProfiles] :
          /\ stock_prices =
                UNION {PriceRows(c, profile[c].prices) : c \in Companies}
          /\ fundamentals =
                Concat([c \in Companies |->
                           FundamentalRows(c, profile[c].fundamentals)],
                       NumCompanies)
    /\ companies = [c \in Companies |-> [is_active |-> TRUE]]
    /\ today = 200
    /\ request \in {r \in Requests :
                       /\ r.end_date = 200 /\ r.portfolio_size = 1
                       /\ r.weighting_method = "equal" /\ r.initial_capital = 1
                       /\ r.rebalancing_frequency = "yearly"}
    /\ portfolio = InitializePortfolio
    /\ selection = NoSelection
    /\ rebalance_dates = <<>>
    /\ next_date = 1
    /\ pc = "ranking"
    /\ results = NoResults
    /\ call = NoCall

\* rank_companies(companies, metrics) on the rows found at a date
CallRankCompanies ==
    /\ pc = "ranking"
    /\ call = NoCall
    /\ \E date \in RankDates, metrics \in MetricLists :
          \E found \in {QueryForRebalance(request, date)} :
              call' = [operation |-> "rank_companies",
                       companies |-> found,
                       metrics |-> metrics,
                       value |-> RankCompanies(found, metrics),
                       scores |-> RankedScores(found, metrics)]
    /\ UNCHANGED <<stock_prices, fundamentals, companies, today, request,
                   portfolio, selection, rebalance_dates, next_date, pc, results>>

RankNext == CallRankCompanies

RankSpec == RankInit /\ [][RankNext]_vars

-----------------------------------------------------------------------------
(* The drawdown series on its own: calculate_drawdown_series called on a
   snapshot history of up to MaxPoints snapshots, one per date, whose total
   values rise and fall. *)

MaxPoints == 4

SnapshotValues == {90, 100, 110}

\* the snapshot histories: snapshot i is of date 10 * i
Histories ==
    UNION {{[i \in 1..n |-> [date |-> 10 * i, total_value |-> values[i]]] :
               values \in [1..n -> SnapshotValues]} : n \in 1..MaxPoints}

DrawdownInit ==
    /\ \E profile \in [Companies -> CompanyProfiles] :
          /\ stock_prices =
                UNION {PriceRows(c, profile[c].prices) : c \in Companies}
          /\ fundamentals =
                Concat([c \in Companies |->
                           FundamentalRows(c, profile[c].fundamentals)],
                       NumCompanies)
    /\ companies = [c \in Companies |-> [is_active |-> TRUE]]
    /\ today = 200
    /\ request \in {r \in Requests :
                       /\ r.end_date = 200 /\ r.portfolio_size = 1
                       /\ r.weighting_method = "equal" /\ r.initial_capital = 1
                       /\ r.rebalancing_frequency = "yearly"}
    /\ portfolio = InitializePortfolio
    /\ selection = NoSelection
    /\ rebalance_dates = <<>>
    /\ next_date = 1
    /\ pc = "drawdown"
    /\ results = NoResults
    /\ call = NoCall

\* calculate_drawdown_series(portfolio_history)
CallDrawdownSeries ==
    /\ pc = "drawdown"
    /\ call = NoCall
    /\ \E portfolio_history \in Histories :
          call' = [operation |-> "calculate_drawdown_series",
                   portfolio_history |-> portfolio_history,
                   outcome |-> CalculateDrawdownSeries(portfolio_history)]
    /\ UNCHANGED <<stock_prices, fundamentals, companies, today, request,
                   portfolio, selection, rebalance_dates, next_date, pc, results>>

DrawdownNext == CallDrawdownSeries

DrawdownSpec == DrawdownInit /\ [][DrawdownNext]_vars

-----------------------------------------------------------------------------
(* Properties *)

Events(event) == {e \in {portfolio.log[i] : i \in DOMAIN portfolio.log} :
                    e.event = event}

EventDates(event) == {e.date : e \in Events(event)}

Finished == pc \in {"report", "analytics", "done"}

\* quantity x price resolved at the date, summed over the holdings of a snapshot
RECURSIVE ResolvedValue(_, _)
ResolvedValue(details, date) ==
    IF details = <<>> THEN 0
    ELSE Head(details).quantity * GetCurrentPrice(Head(details).company_id, date)
         + ResolvedValue(Tail(details), date)

\* C1: every snapshot of the snapshot history has total_value equal to its
\* cash_balance plus the sum over its holdings of quantity x the price resolved
\* at the snapshot date, rounded to 2 decimal places.
C1_LedgerConservation ==
    \A i \in DOMAIN portfolio.portfolio_history :
        LET snap == portfolio.portfolio_history[i]
        IN  snap.total_value =
                RoundHalfUp(snap.cash_balance * PriceUnitsPerCent
                                + ResolvedValue(snap.holdings, snap.date),
                            PriceUnitsPerCent)

\* a second snapshot, after an earlier rebalance, that holds two securities and cash
C1_Witness ==
    /\ Len(portfolio.portfolio_history) >= 2
    /\ LET snap == Last(portfolio.portfolio_history)
       IN  /\ Len(snap.holdings) >= 2
           /\ snap.cash_balance > 0
           /\ \E i \in DOMAIN snap.holdings :
                 (snap.holdings[i].quantity
                    * GetCurrentPrice(snap.holdings[i].company_id, snap.date))
                        % PriceUnitsPerCent # 0

\* C2: the cash balance is never negative: not in the ledger, and not after any
\* recorded buy or sell (so no buy was executed whose cost exceeded the cash).
C2_NoNegativeCash ==
    /\ portfolio.cash_balance >= 0
    /\ \A i \in DOMAIN portfolio.transaction_history :
          portfolio.transaction_history[i].cash_balance >= 0

\* a buy was rejected for insufficient cash during a rebalance that also bought
C2_Witness ==
    \E e \in Events("insufficient_cash") :
        \E i \in DOMAIN portfolio.transaction_history :
            /\ portfolio.transaction_history[i].action = "BUY"
            /\ portfolio.transaction_history[i].date = e.date

\* the transactions a step appended
NewTransactions(P, Q) ==
    SubSeq(Q.transaction_history, Len(P.transaction_history) + 1,
           Len(Q.transaction_history))

\* the quantity held of a company, 0 when it is not held
HeldQuantity(holdings, company_id) ==
    IF company_id \in HeldIds(holdings)
    THEN HoldingOf(holdings, company_id).quantity ELSE 0

\* the quantity of a company that the transactions sold
SoldQuantity(txs, company_id) ==
    SeqSum([j \in DOMAIN txs |->
               IF txs[j].action = "SELL" /\ txs[j].company_id = company_id
               THEN txs[j].quantity ELSE 0])

\* the sells of one call take no more of a company than was held before it,
\* and a call that only sells leaves the rest in the holding
SellWithinHolding ==
    LET new == NewTransactions(portfolio, portfolio')
    IN  \A c \in Companies :
            /\ SoldQuantity(new, c) >= 0
            /\ SoldQuantity(new, c) <= HeldQuantity(portfolio.holdings, c)
            /\ (\A j \in DOMAIN new : new[j].action = "SELL") =>
                  HeldQuantity(portfolio'.holdings, c)
                      = HeldQuantity(portfolio.holdings, c) - SoldQuantity(new, c)
            /\ (call'.operation = "execute_sell" /\ call'.company_id = c
                    /\ call'.price > 0) =>
                  SoldQuantity(new, c)
                      = IF call'.quantity < HeldQuantity(portfolio.holdings, c)
                        THEN call'.quantity
                        ELSE HeldQuantity(portfolio.holdings, c)

\* C3: every holding of every ledger state has a quantity above 0, a holding
\* that reaches 0 is removed, and a sell never takes more than the quantity
\* held, whatever quantity is requested.
C3_NoNegativeHoldings ==
    /\ [](\A i \in DOMAIN portfolio.holdings : portfolio.holdings[i].quantity > 0)
    /\ [](\A i, j \in DOMAIN portfolio.holdings :
              portfolio.holdings[i].company_id = portfolio.holdings[j].company_id
                  => i = j)
    /\ [][SellWithinHolding]_vars

\* a sell that was asked for more than the holding and took the holding
C3_Witness ==
    /\ pc = "ledger"
    /\ Len(portfolio.transaction_history) >= 2
    /\ call.operation = "execute_sell"
    /\ call.quantity > Last(portfolio.transaction_history).quantity
    /\ LET n == Len(portfolio.transaction_history)
           buy == portfolio.transaction_history[n - 1]
           sell == portfolio.transaction_history[n]
       IN  /\ buy.action = "BUY" /\ sell.action = "SELL"
           /\ buy.company_id = sell.company_id
           /\ sell.quantity = buy.quantity
           /\ buy.quantity < MaxQuantity
           /\ sell.company_id \notin HeldIds(portfolio.holdings)
           /\ portfolio.holdings = <<>>

\* the true weight of a holding at a date, as the fraction num / den: its
\* quantity x the price resolved at the date over the portfolio value at the date
WeightNumAt(P, h, date) == h.quantity * GetCurrentPrice(h.company_id, date)

WeightDenAt(P, date) == P.cash_balance * PriceUnitsPerCent
                            + HoldingsValue(P.holdings, date)

\* every held security is a target with a resolvable price and a normalised
\* weight less than 1% away from the holding's weight at the date
WithinTolerance(P, w, date) ==
    /\ P.holdings # <<>>
    /\ WeightIds(w) = HeldIds(P.holdings)
    /\ \A i \in DOMAIN w : GetCurrentPrice(w[i].company_id, date) > 0
    /\ SeqSum([i \in DOMAIN w |-> w[i].weight]) > 0
    /\ \A i \in DOMAIN P.holdings :
          LET h == P.holdings[i]
              new == WeightOf(ValidWeights(w), h.company_id)
              num == WeightNumAt(P, h, date)
              den == WeightDenAt(P, date)
          IN  /\ ~RatGreater(num, den, new + Tolerance - 1, NormUnit)
              /\ new + 1 > Tolerance =>
                    ~RatGreater(new + 1 - Tolerance, NormUnit, num, den)

SameLedger(P, Q) ==
    /\ P.transaction_history = Q.transaction_history
    /\ P.portfolio_history = Q.portfolio_history
    /\ P.cash_balance = Q.cash_balance
    /\ P.holdings = Q.holdings

\* C4: a rebalance whose target weights cover exactly the held securities and
\* differ from each holding's current weight by less than 1% appends no
\* transaction and no snapshot and leaves cash and holdings unchanged.
C4_IdempotentUnderTinyDrift ==
    [][(/\ pc = "periodic"
        /\ next_date <= Len(rebalance_dates)
        /\ selection'.date = rebalance_dates[next_date]
        /\ WithinTolerance(portfolio, selection'.weights,
                           rebalance_dates[next_date]))
       => SameLedger(portfolio, portfolio')]_vars

\* C5: for the three weighting methods the weights computed for a non-empty
\* ranked list sum to 1 within 1e-6, and an empty list gives empty weights.
C5_WeightSums ==
    request.weighting_method \in KnownMethods =>
        IF selection.top_stocks = <<>> THEN selection.weights = <<>>
        ELSE Abs(SeqSum([i \in DOMAIN selection.weights |->
                            selection.weights[i].weight]) - WeightUnit)
                <= WeightUnit \div NormUnit

\* C6: under an unknown weighting method the run fails before any selection,
\* trade or snapshot, substitutes no weights and returns no report.
C6_UnknownMethodRejected ==
    request.weighting_method \notin KnownMethods =>
        /\ selection = NoSelection
        /\ portfolio.transaction_history = <<>>
        /\ portfolio.portfolio_history = <<>>
        /\ pc \notin {"periodic", "report", "analytics", "done"}

\* C7: with end_date earlier than start_date the run fails before the
\* simulation: no transaction, no snapshot and no report.
C7_InvalidDateRangeRejected ==
    request.end_date < request.start_date =>
        /\ portfolio.transaction_history = <<>>
        /\ portfolio.portfolio_history = <<>>
        /\ ~results.returned

\* the dates on which a rebalance ran to its end
ExecutedDates ==
    EventDates("executing_rebalance")
        \ (EventDates("rebalance_error") \cup EventDates("backtest_failed")
           \cup EventDates("no_capital"))

\* C8: after the final liquidation the snapshot history holds one snapshot per
\* executed rebalance plus one for the liquidation, dated end_date and showing
\* the liquidated portfolio.
C8_SnapshotPerRebalanceAndLiquidation ==
    Finished =>
        /\ Len(portfolio.portfolio_history) = Cardinality(ExecutedDates) + 1
        /\ LET snap == Last(portfolio.portfolio_history)
           IN  /\ snap.date = request.end_date
               /\ snap.cash_balance = portfolio.cash_balance
               /\ {snap.holdings[i].company_id : i \in DOMAIN snap.holdings}
                      = HeldIds(portfolio.holdings)

\* the part of C8 the code keeps: one snapshot per executed rebalance, none else
SnapshotPerExecutedRebalance ==
    /\ Len(portfolio.portfolio_history) = Cardinality(ExecutedDates)
    /\ {portfolio.portfolio_history[i].date : i \in DOMAIN portfolio.portfolio_history}
          = ExecutedDates

\* the dates of the periodic loop, in the order the loop logged them
LoggedRebalanceDates ==
    LET entries == SelectSeq(portfolio.log, LAMBDA e : e.event = "rebalance_date")
    IN  [i \in DOMAIN entries |-> entries[i].date]

\* the dates the periodic loop has to process, in schedule order
PeriodicDates == SelectSeq(rebalance_dates, LAMBDA d : d > request.start_date)

\* C9: a failure on one periodic rebalance date does not abort the run: the
\* run never fails after such a failure, it goes on to process every later
\* rebalance date in schedule order, performs the final liquidation and
\* returns its report.
C9_PeriodicFailureNotFatal ==
    /\ [][Cardinality(Events("rebalance_error")')
              > Cardinality(Events("rebalance_error"))
          => /\ pc' = "periodic"
             /\ next_date' = next_date + 1
             /\ rebalance_dates' = rebalance_dates]_vars
    /\ [](Events("rebalance_error") # {} =>
            /\ pc \in {"periodic", "report", "analytics", "done"}
            /\ pc = "periodic" =>
                  LoggedRebalanceDates
                      = SubSeq(PeriodicDates, 1, Len(LoggedRebalanceDates))
            /\ Finished =>
                  /\ LoggedRebalanceDates = PeriodicDates
                  /\ Cardinality(Events("final_liquidation")) = 1
            /\ pc = "report" => ENABLED Report
            /\ pc = "done" => results.returned)

\* a completed run in which a date failed and a later date traded
C9_Witness ==
    /\ pc = "done"
    /\ results.returned
    /\ \E e \in Events("rebalance_error") :
          \E i \in DOMAIN portfolio.transaction_history :
              /\ portfolio.transaction_history[i].action = "BUY"
              /\ portfolio.transaction_history[i].date > e.date

\* the final liquidation step sells exactly the holdings whose price resolves
\* at end_date, each in full, and leaves every other holding as it was
LiquidationStep ==
    (pc = "periodic" /\ pc' = "report") =>
        LET new == NewTransactions(portfolio, portfolio')
            end_date == request.end_date
            priced == {i \in DOMAIN portfolio.holdings :
                          GetCurrentPrice(portfolio.holdings[i].company_id,
                                          end_date) > 0}
        IN  /\ Len(portfolio'.transaction_history)
                  = Len(portfolio.transaction_history) + Cardinality(priced)
            /\ \A i \in DOMAIN portfolio.holdings :
                  LET h == portfolio.holdings[i]
                      sells == {j \in DOMAIN new : new[j].company_id = h.company_id}
                  IN  IF i \in priced
                      THEN /\ h.company_id \notin HeldIds(portfolio'.holdings)
                           /\ Cardinality(sells) = 1
                           /\ \A j \in sells :
                                 /\ new[j].action = "SELL"
                                 /\ new[j].quantity = h.quantity
                                 /\ new[j].date = end_date
                                 /\ new[j].price =
                                        GetCurrentPrice(h.company_id, end_date)
                      ELSE /\ h.company_id \in HeldIds(portfolio'.holdings)
                           /\ HoldingOf(portfolio'.holdings, h.company_id) = h
                           /\ sells = {}
            /\ HeldIds(portfolio'.holdings) \subseteq HeldIds(portfolio.holdings)
            /\ portfolio'.portfolio_history = portfolio.portfolio_history

\* the report shows the cash balance as final value and the unliquidated
\* holdings as final holdings
ReportOfLiquidation ==
    pc = "done" =>
        /\ results.returned
        /\ results.final_value = portfolio.cash_balance
        /\ results.final_portfolio.total_value = portfolio.cash_balance
        /\ results.final_portfolio.cash_balance = portfolio.cash_balance
        /\ results.final_portfolio.holdings = portfolio.holdings
        /\ results.transaction_history = portfolio.transaction_history

\* C10: the final liquidation sells in full every holding whose price resolves
\* at end_date; a holding without a price gets no transaction, stays in the
\* final holdings and adds nothing to final_value, which is the cash balance;
\* the run completes and returns its report.
C10_FinalLiquidation ==
    /\ [][LiquidationStep]_vars
    /\ [](ReportOfLiquidation)
    /\ [](pc = "report" => ENABLED Report)

\* a completed run that sold one holding at end_date and kept another one
\* whose price did not resolve
C10_Witness ==
    /\ pc = "done"
    /\ results.final_portfolio.holdings # <<>>
    /\ results.final_value > 0
    /\ \E e \in Events("cannot_liquidate") :
          e.company_id \in HeldIds(results.final_portfolio.holdings)
    /\ \E i \in DOMAIN results.transaction_history :
          /\ results.transaction_history[i].action = "SELL"
          /\ results.transaction_history[i].date = request.end_date
          /\ i > Len(results.transaction_history) - NumCompanies

-----------------------------------------------------------------------------
\* the stored rows of a company that carry a price (adjusted close or close)
\* and are dated within the given number of days up to the date
PricedRows(company_id, as_of_date, days) ==
    {row \in stock_prices :
        /\ row.company_id = company_id
        /\ as_of_date - days <= row.date
        /\ row.date <= as_of_date
        /\ (row.adjusted_close # None \/ row.close # None)}

\* the price carried by the most recent of the rows
MostRecentPrice(rows) ==
    LET latest == CHOOSE row \in rows : \A other \in rows : other.date <= row.date
    IN  IF latest.adjusted_close # None THEN latest.adjusted_close[1]
        ELSE latest.close[1]

-----------------------------------------------------------------------------
\* the transactions of the ledger, as a set
Transactions == {portfolio.transaction_history[i] :
                    i \in DOMAIN portfolio.transaction_history}

\* the companies of the current selection whose price cannot be resolved on
\* the selection's date: no stored row of the 90 days up to it carries a price
UnresolvedTargets ==
    {selection.weights[i].company_id : i \in DOMAIN selection.weights}
        \ {c \in Companies :
              PricedRows(c, selection.date, ExtendedFallbackDays) # {}}

\* C12: no BUY or SELL transaction is recorded at a price <= 0; every
\* transaction is of a security whose price resolves on the transaction's
\* date, at that price; and a target security whose price cannot be resolved
\* on the rebalance date has no BUY of that date.
C12_UnpricedExcluded ==
    /\ \A t \in Transactions :
          /\ t.price > 0
          /\ PricedRows(t.company_id, t.date, ExtendedFallbackDays) # {}
          /\ t.price = MostRecentPrice(
                           PricedRows(t.company_id, t.date, ExtendedFallbackDays))
    /\ \A c \in UnresolvedTargets :
          ~\E t \in Transactions :
              /\ t.company_id = c
              /\ t.date = selection.date
              /\ t.action = "BUY"

\* a rebalance that traded on its date while one of its targets had no price:
\* the other target was bought, the unpriced one was not
C12_Witness ==
    /\ UnresolvedTargets # {}
    /\ \E e \in Events("executing_rebalance") : e.date = selection.date
    /\ \E t \in Transactions :
          /\ t.date = selection.date
          /\ t.action = "BUY"
          /\ t.company_id \notin UnresolvedTargets
    /\ \A c \in UnresolvedTargets :
          ~\E t \in Transactions : t.company_id = c /\ t.date = selection.date

-----------------------------------------------------------------------------
\* the positive market capitalisation of a selected row, 0 when it has none
PositiveCap(row) ==
    IF row.market_cap # None /\ row.market_cap[1] > 0 THEN row.market_cap[1]
    ELSE 0

\* C13: under market_cap weighting every selected security is a key of the
\* weight map; one with a positive market cap has the weight cap / total of
\* the positive caps, and one lacking a positive market cap has weight 0.
C13_MarketCapKeys ==
    request.weighting_method = "market_cap" =>
        \A i \in DOMAIN selection.top_stocks :
            LET row == selection.top_stocks[i]
                total == SeqSum([j \in DOMAIN selection.top_stocks |->
                                    PositiveCap(selection.top_stocks[j])])
            IN  /\ row.company_id \in WeightIds(selection.weights)
                /\ WeightOf(selection.weights, row.company_id) =
                      IF PositiveCap(row) = 0 THEN 0
                      ELSE DivRound(PositiveCap(row), total, 8)

-----------------------------------------------------------------------------
\* the quantity that the first n of the trades matched against a lot
MatchedOfLot(trades, lot, n) ==
    SeqSum([i \in 1..n |-> IF trades[i].lot = lot THEN trades[i].quantity ELSE 0])

\* the quantity that the trades matched for a sell
MatchedOfSell(trades, sell) ==
    SeqSum([i \in DOMAIN trades |->
               IF trades[i].sell = sell THEN trades[i].quantity ELSE 0])

\* the open lots that the trades leave of the buys among the transactions:
\* what is left of each buy, at the buy's price, oldest first
OpenLots(txs, trades) ==
    LET left(k) == txs[k].quantity - MatchedOfLot(trades, k, Len(trades))
        open == SelectSeq([k \in DOMAIN txs |-> k],
                          LAMBDA k : txs[k].action = "BUY" /\ left(k) > 0)
    IN  [j \in DOMAIN open |->
            [date |-> txs[open[j]].date, price |-> txs[open[j]].price,
             quantity |-> left(open[j]), tx |-> open[j]]]

\* what _calculate_security_performance was called with is one security's
\* transactions of a ledger, in date order
TrackedCall ==
    /\ call.operation = "_calculate_security_performance"
    /\ \A k \in 1..(Len(call.transactions) - 1) :
          call.transactions[k].date <= call.transactions[k + 1].date

\* C14: the trades that _calculate_security_performance attributes to one
\* security's transactions in date order are FIFO: every trade matches a sell
\* against an earlier buy and realizes (sell price - lot price) x matched
\* quantity; a lot is matched only when every older lot is used up; every
\* sell is matched in full; the inventory left holds what remains of each
\* lot at the lot's own price, a used-up lot being removed.  Buying 100 at 50
\* and selling 60 at 70 gives one trade of 60 with P&L 1,200 and leaves one
\* lot of 40 at 50.
C14_FifoAttribution ==
    TrackedCall =>
        LET txs == call.transactions
            trades == call.tracked.trades
        IN  /\ \A i \in DOMAIN trades :
                  /\ trades[i].quantity > 0
                  /\ trades[i].lot < trades[i].sell
                  /\ txs[trades[i].lot].action = "BUY"
                  /\ txs[trades[i].sell].action = "SELL"
                  /\ trades[i].pnl =
                        (txs[trades[i].sell].price - txs[trades[i].lot].price)
                            * trades[i].quantity
                  /\ \A older \in 1..(trades[i].lot - 1) :
                        txs[older].action = "BUY" =>
                            MatchedOfLot(trades, older, i) = txs[older].quantity
                  /\ \A j \in DOMAIN trades :
                        i < j => trades[i].sell <= trades[j].sell
            /\ \A k \in DOMAIN txs :
                  txs[k].action = "SELL" =>
                      MatchedOfSell(trades, k) = txs[k].quantity
            /\ call.tracked.inventory = OpenLots(txs, trades)
            /\ call.tracked.total_trades = Len(trades)
            /\ call.tracked.total_pnl =
                  SeqSum([i \in DOMAIN trades |-> trades[i].pnl])
            /\ (/\ Len(txs) = 2
                /\ txs[1].action = "BUY" /\ txs[1].quantity = 100
                /\ txs[1].price = 500000
                /\ txs[2].action = "SELL" /\ txs[2].quantity = 60
                /\ txs[2].price = 700000)
               => /\ Len(trades) = 1
                  /\ trades[1].quantity = 60
                  /\ trades[1].pnl = 12000000
                  /\ Len(call.tracked.inventory) = 1
                  /\ call.tracked.inventory[1].quantity = 40
                  /\ call.tracked.inventory[1].price = 500000

\* a sell of 3 that used up a lot of 2 and took 1 of the next lot of 100,
\* which stays open with 99 at its own price
C14_Witness ==
    /\ TrackedCall
    /\ Len(call.tracked.trades) = 2
    /\ call.tracked.trades[1].sell = call.tracked.trades[2].sell
    /\ call.tracked.trades[1].lot < call.tracked.trades[2].lot
    /\ call.tracked.trades[1].pnl < 0
    /\ Len(call.tracked.inventory) = 1
    /\ call.tracked.inventory[1].quantity = 99
    /\ call.tracked.inventory[1].price = 500000

-----------------------------------------------------------------------------
\* the performances of a ranking, whatever their order
RankedPerformances(returned) ==
    {returned.ranking.winners[i] : i \in DOMAIN returned.ranking.winners}

\* C15: a matcher called a second time on the same transaction list returns
\* what it returned the first time: the same win rate, the same profit
\* factor, and the same per-security results (P&L, trades, win rate, holding
\* period) from get_top_winners_losers.
C15_RepeatedRunsAgree ==
    /\ \A m \in {"calculate_win_rate", "calculate_profit_factor"} :
          Len(results[m]) = 2 => results[m][1] = results[m][2]
    /\ (/\ Len(results.get_top_winners_losers) = 2
        /\ results.get_top_winners_losers[1].top_n
              = results.get_top_winners_losers[2].top_n)
       => RankedPerformances(results.get_top_winners_losers[1])
              = RankedPerformances(results.get_top_winners_losers[2])

-----------------------------------------------------------------------------
\* the performances that get_top_winners_losers finds in a transaction list
PerformancesOf(transaction_history) ==
    {p[1] : p \in {CalculateSecurityPerformance(
                       c, SecurityTransactions(transaction_history, c)) :
                   c \in Companies} \ {None}}

\* what the last call of get_top_winners_losers ranked is what the
\* transaction list held when the first method was called
RankingOfGivenList ==
    (call.operation = "get_top_winners_losers" /\ call.value.top_n = DefaultTopN)
        => RankedPerformances(call.value) = PerformancesOf(results.transaction_history)

\* C16: the methods that calculate_comprehensive_metrics runs at once on the
\* transaction list never write to it, so the list stays as it was given and
\* get_top_winners_losers returns the same performances whether it runs
\* before or after calculate_win_rate and calculate_profit_factor.
C16_TasksDoNotWrite ==
    /\ pc = "metrics" => portfolio.transaction_history = results.transaction_history
    /\ RankingOfGivenList

\* the report of this step is the one run_backtest returns with metrics
ReportsMetrics ==
    pc = "analytics" /\ pc' = "done" /\ "profit_factor" \in DOMAIN results'

\* C17: transactions are an append-only audit trail: a step never changes or
\* removes a record the ledger holds, and the transaction_history of the
\* returned report is the list of records as the ledger appended them
C17_TransactionsImmutable ==
    [][/\ \A i \in DOMAIN portfolio.transaction_history :
              /\ i \in DOMAIN portfolio'.transaction_history
              /\ portfolio'.transaction_history[i]
                     = portfolio.transaction_history[i]
       /\ (pc = "analytics" /\ pc' = "done")
              => results'.transaction_history = portfolio.transaction_history]_vars

\* the gross realized profit and loss of the FIFO matching of a ledger
RealizedOf(pnls) == [profit |-> GrossProfit(pnls), loss |-> GrossLoss(pnls)]

Realized(transaction_history) ==
    RealizedOf(MatchTransactions(transaction_history).pnls)

\* C18: the profit_factor of the report is the gross realized profit over the
\* gross realized loss of the FIFO matching of the run's transactions, and is
\* 0 only when no loss was realized
C18_ReportedProfitFactor ==
    [][ReportsMetrics =>
          \E realized \in {Realized(portfolio.transaction_history)} :
             /\ realized.loss > 0
                  => results'.profit_factor
                         = Ratio(realized.profit, realized.loss)
             /\ results'.profit_factor = ZeroRatio => realized.loss = 0]_vars

\* the snapshot history is empty or a single point
DegenerateHistory == Len(portfolio.portfolio_history) <= 1

\* the value of a statistic is zero or empty: an empty series, rows without
\* drawdown, a maximum drawdown of 0 without duration, the number 0
ZeroOrEmpty(name, value) ==
    CASE name = "calculate_returns_series" -> value = <<>>
      [] name = "calculate_drawdown_series" ->
             \A i \in DOMAIN value :
                 value[i].drawdown[1] = 0 /\ value[i].drawdown_duration = 0
      [] name = "calculate_max_drawdown" ->
             value.max_drawdown[1] = 0 /\ value.max_drawdown_duration = 0
      [] OTHER -> value = 0

\* C19: given an empty or single-point snapshot history every statistic
\* returns zero or an empty result and does not raise; given an empty
\* transaction history the win rate and the profit factor are 0 and the
\* winners and losers are empty
C19_DegenerateInputSafe ==
    /\ (call.operation \in StatisticNames /\ DegenerateHistory)
          => /\ ~call.outcome.raised
             /\ ZeroOrEmpty(call.operation, call.outcome.value)
    /\ (pc = "metrics" /\ portfolio.transaction_history = <<>>)
          => /\ \A i \in DOMAIN results.calculate_win_rate :
                    results.calculate_win_rate[i] = ZeroRatio
             /\ \A i \in DOMAIN results.calculate_profit_factor :
                    results.calculate_profit_factor[i] = ZeroRatio
             /\ \A i \in DOMAIN results.get_top_winners_losers :
                    results.get_top_winners_losers[i].ranking
                        = [winners |-> <<>>, losers |-> <<>>]

\* a list holds count of the ranked performances, one each, chosen from the
\* given end of the ranking: no performance left out is better (from the top)
\* or worse (from the bottom) than one in the list, and the list runs from
\* that end inwards
TakenFromTop(list, ranked, count) ==
    /\ Len(list) = count
    /\ \A i \in DOMAIN list : list[i] \in ranked
    /\ \A i, j \in DOMAIN list :
          i < j => /\ list[i] # list[j]
                   /\ ~RatioGreater(list[j].total_return, list[i].total_return)
    /\ \A p \in ranked \ {list[i] : i \in DOMAIN list} :
          \A i \in DOMAIN list :
              ~RatioGreater(p.total_return, list[i].total_return)

TakenFromBottom(list, ranked, count) ==
    /\ Len(list) = count
    /\ \A i \in DOMAIN list : list[i] \in ranked
    /\ \A i, j \in DOMAIN list :
          i < j => /\ list[i] # list[j]
                   /\ ~RatioGreater(list[i].total_return, list[j].total_return)
    /\ \A p \in ranked \ {list[i] : i \in DOMAIN list} :
          \A i \in DOMAIN list :
              ~RatioGreater(list[i].total_return, p.total_return)

WinnersAndLosersOf(ranking, ranked, top_n) ==
    /\ TakenFromTop(ranking.winners, ranked, Min(top_n, Cardinality(ranked)))
    /\ TakenFromBottom(ranking.losers, ranked, Min(top_n, Cardinality(ranked)))

\* C20: get_top_winners_losers returns as winners the top_n securities of
\* highest total return, best first, and as losers the top_n of lowest total
\* return, worst first; with fewer than top_n securities each list holds all
\* of them
C20_WinnersAndLosers ==
    call.operation = "get_top_winners_losers"
        => WinnersAndLosersOf(call.value.ranking,
                              PerformancesOf(portfolio.transaction_history),
                              call.value.top_n)

-----------------------------------------------------------------------------
\* the log entries and the snapshots a step appended
NewLog(P, Q) == SubSeq(Q.log, Len(P.log) + 1, Len(Q.log))

NewSnapshots(P, Q) ==
    SubSeq(Q.portfolio_history, Len(P.portfolio_history) + 1,
           Len(Q.portfolio_history))

\* the dates on which the step executed a rebalance (got past the check of
\* the weights, line 357)
ExecutedIn(P, Q) ==
    {NewLog(P, Q)[i].date : i \in {j \in DOMAIN NewLog(P, Q) :
                                      NewLog(P, Q)[j].event = "executing_rebalance"}}

\* the step raised an exception
RaisedIn(P, Q) ==
    \E i \in DOMAIN NewLog(P, Q) :
        NewLog(P, Q)[i].event \in {"rebalance_error", "backtest_failed"}

\* the holdings of a snapshot are those of the ledger
SnapshotOfLedger(snap, P) ==
    /\ snap.cash_balance = P.cash_balance
    /\ Len(snap.holdings) = Len(P.holdings)
    /\ \A i \in DOMAIN snap.holdings :
          /\ snap.holdings[i].company_id = P.holdings[i].company_id
          /\ snap.holdings[i].quantity = P.holdings[i].quantity

\* the order of the rebalance executed at a date by the step from P to Q
RebalanceInOrder(P, Q, date, new, snaps) ==
    /\ \A j \in DOMAIN new : new[j].date = date
    /\ \A i \in DOMAIN P.holdings :
          GetCurrentPrice(P.holdings[i].company_id, date) > 0 =>
              \E j \in DOMAIN new :
                  /\ new[j].action = "SELL"
                  /\ new[j].company_id = P.holdings[i].company_id
                  /\ new[j].quantity = P.holdings[i].quantity
    /\ \A i, j \in DOMAIN new :
          (new[i].action = "SELL" /\ new[j].action = "BUY") => i < j
    /\ Len(snaps) <= 1
    /\ \A k \in DOMAIN snaps :
          snaps[k].date = date /\ SnapshotOfLedger(snaps[k], Q)
    /\ (~RaisedIn(P, Q) /\ \E j \in DOMAIN new : new[j].action = "BUY")
          => Len(snaps) = 1

\* C21: an executed rebalance sells in full every security held before it
\* whose price resolves, appends all its SELL transactions before any of its
\* BUY transactions, and records its snapshot after the last BUY (the
\* snapshot shows the cash and the holdings the buys left).
C21_RebalanceOrder ==
    [][\A date \in ExecutedIn(portfolio, portfolio') :
           RebalanceInOrder(portfolio, portfolio', date,
                            NewTransactions(portfolio, portfolio'),
                            NewSnapshots(portfolio, portfolio'))]_vars

\* a second rebalance that sold a holding, bought, and recorded its snapshot
C21_Witness ==
    /\ Len(portfolio.portfolio_history) >= 2
    /\ \E i, j \in DOMAIN portfolio.transaction_history :
          /\ portfolio.transaction_history[i].action = "SELL"
          /\ portfolio.transaction_history[j].action = "BUY"
          /\ portfolio.transaction_history[i].date
                 = Last(portfolio.portfolio_history).date
          /\ portfolio.transaction_history[j].date
                 = Last(portfolio.portfolio_history).date
          /\ portfolio.transaction_history[i].quantity > 0

-----------------------------------------------------------------------------
\* the cash a step of the run starts with: the initial capital at the start
\* (run_backtest, line 594), the cash of the ledger afterwards
CashBefore ==
    IF pc = "start" THEN request.initial_capital * CentsPerUnit
    ELSE portfolio.cash_balance

\* the cash once the sells of the step are credited
CashAfterSells(cash, new) ==
    cash
        + SeqSum([j \in DOMAIN new |->
                     IF new[j].action = "SELL" THEN new[j].total_value ELSE 0])

\* round2(cash x weight), in cents, for a weight in millionths
TargetAllocation(cash, weight) == RoundHalfUp(cash * weight, NormUnit)

\* floor(t / p) for t in cents and p in price units
FloorShares(t, p) == (t * PriceUnitsPerCent) \div p

\* the BUY transactions of a company among the new ones
BuysOf(new, company_id) ==
    {j \in DOMAIN new : new[j].action = "BUY" /\ new[j].company_id = company_id}

\* the target gets one BUY of floor(t / p) shares, or nothing when that is 0
BoughtToTarget(new, company_id, shares, p) ==
    IF shares > 0
    THEN /\ Cardinality(BuysOf(new, company_id)) = 1
         /\ \A j \in BuysOf(new, company_id) :
                new[j].quantity = shares /\ new[j].price = p
    ELSE BuysOf(new, company_id) = {}

\* the buys of the rebalance executed at a date, for the targets given
TargetsBought(date, valid_weights, new, cash) ==
    \A i \in DOMAIN valid_weights :
        BoughtToTarget(new, valid_weights[i].company_id,
                       FloorShares(TargetAllocation(cash, valid_weights[i].weight),
                                   GetCurrentPrice(valid_weights[i].company_id,
                                                   date)),
                       GetCurrentPrice(valid_weights[i].company_id, date))

\* C22: in an executed rebalance that raises no error, each target security
\* with a resolvable price p and target allocation t = round2(cash after the
\* sells x normalised weight) gets exactly one BUY of floor(t / p) shares when
\* that number is above 0, and no transaction when it is 0.
C22_BuysToTarget ==
    [][\A date \in ExecutedIn(portfolio, portfolio') :
           (~RaisedIn(portfolio, portfolio')
                /\ CashAfterSells(CashBefore,
                                  NewTransactions(portfolio, portfolio')) > 0)
           => TargetsBought(
                  date,
                  ValidWeights(ValidCompanyIds(selection'.weights, date)),
                  NewTransactions(portfolio, portfolio'),
                  CashAfterSells(CashBefore,
                                 NewTransactions(portfolio, portfolio')))]_vars

-----------------------------------------------------------------------------
\* the target allocations of the weights, added up
TotalAllocation(cash, valid_weights) ==
    SeqSum([i \in DOMAIN valid_weights |->
               TargetAllocation(cash, valid_weights[i].weight)])

\* the step rejected a buy because its cost exceeded the cash
BuyRejectedIn(P, Q) ==
    \E i \in DOMAIN NewLog(P, Q) : NewLog(P, Q)[i].event = "insufficient_cash"

\* C23: within an executed rebalance the target allocations add up to no more
\* than the cash available after the sells, and no buy that the rebalance
\* intends (floor quantity above 0) is rejected for insufficient cash.
C23_AllocationsWithinCash ==
    [][\A date \in ExecutedIn(portfolio, portfolio') :
           /\ TotalAllocation(
                  CashAfterSells(CashBefore,
                                 NewTransactions(portfolio, portfolio')),
                  ValidWeights(ValidCompanyIds(selection'.weights, date)))
                <= CashAfterSells(CashBefore,
                                  NewTransactions(portfolio, portfolio'))
           /\ ~BuyRejectedIn(portfolio, portfolio')]_vars

-----------------------------------------------------------------------------
\* the positions of the rows given to rank_companies, in the order of a stable
\* descending sort by the scores the call returned for them: position i comes
\* before position j when its score is higher, or equal with i given first
ScoreGiven(i) ==
    call.scores[CHOOSE k \in DOMAIN call.value :
                    call.value[k] = call.companies[i]]

StableDescending(order) ==
    /\ Len(order) = Len(call.companies)
    /\ \A i \in DOMAIN call.companies : \E k \in DOMAIN order : order[k] = i
    /\ \A k, l \in DOMAIN order :
          k < l => \/ ScoreGiven(order[k]) > ScoreGiven(order[l])
                   \/ /\ ScoreGiven(order[k]) = ScoreGiven(order[l])
                      /\ order[k] < order[l]

\* C24: rank_companies returns the securities it is given sorted by score in
\* descending order, securities of equal score keeping the order in which
\* they were given.
C24_StableRanking ==
    (call.operation = "rank_companies" /\ call.metrics # <<>>) =>
        \E order \in [DOMAIN call.companies -> DOMAIN call.companies] :
            /\ StableDescending(order)
            /\ call.value = [k \in DOMAIN order |-> call.companies[order[k]]]

\* the score the request configures for a row: over every dict of the
\* ranking_metrics list and every metric of the dict, +value when higher is
\* better and -value otherwise, 0 for a value that is missing
RECURSIVE ConfiguredScore(_, _)
ConfiguredScore(row, metrics) ==
    IF metrics = <<>> THEN 0
    ELSE Score(row, Head(metrics)) + ConfiguredScore(row, Tail(metrics))

\* C25: the score of every ranked security is the sum over every entry of the
\* ranking_metrics list of +value or -value, a missing value counting 0, and
\* every security given to the ranker is in its result.
C25_ScoreSumsEveryMetric ==
    call.operation = "rank_companies" =>
        /\ Len(call.value) = Len(call.companies)
        /\ \A i \in DOMAIN call.companies :
              \E k \in DOMAIN call.value : call.value[k] = call.companies[i]
        /\ \A k \in DOMAIN call.value :
              call.scores[k] = ConfiguredScore(call.value[k], call.metrics)

-----------------------------------------------------------------------------
\* the ledger execute_rebalance leaves for target weights w at current_date
\* when the run takes place on the wall-clock date now
RebalanceOn(P, w, current_date, now) ==
    LET valid == ValidCompanyIds(w, current_date)
    IN  IF valid = <<>> \/ SeqSum([i \in DOMAIN valid |-> valid[i].weight]) <= 0
        THEN P
        ELSE RebalanceIfChanged(P, CurrentWeightsOn(P, now), ValidWeights(valid),
                                current_date)

\* C26: whether a periodic rebalance is skipped or executed, and the
\* transactions and snapshots it leaves, are the same whatever the wall-clock
\* date on which the run takes place.
C26_WallClockIndependent ==
    [][(/\ pc = "periodic"
        /\ next_date <= Len(rebalance_dates)
        /\ selection'.date = rebalance_dates[next_date])
       => \A now \in WallClockDates :
             SameLedger(RebalanceOn(portfolio, selection'.weights,
                                    rebalance_dates[next_date], now),
                        RebalanceOn(portfolio, selection'.weights,
                                    rebalance_dates[next_date], today))]_vars

\* C27: a periodic rebalance date whose processing fails leaves cash, holdings,
\* transaction history and snapshot history as they were before the date.
C27_FailedDateSkippedWhole ==
    [][(/\ pc = "periodic"
        /\ \E i \in DOMAIN NewLog(portfolio, portfolio') :
              NewLog(portfolio, portfolio')[i].event = "rebalance_error")
       => SameLedger(portfolio, portfolio')]_vars

-----------------------------------------------------------------------------
\* the cash the ledger was funded with
FundedCash ==
    IF pc = "ledger" THEN LedgerCash
    ELSE request.initial_capital * CentsPerUnit

\* the cash that the first n transactions leave of the funding: every SELL
\* adds its total_value, every BUY takes its total_value
CashAfter(txs, n, funded) ==
    funded + SeqSum([i \in 1..n |-> IF txs[i].action = "SELL"
                                    THEN txs[i].total_value
                                    ELSE -txs[i].total_value])

\* C28: the ledger cash is the initial capital plus the total_value of all SELL
\* transactions minus the total_value of all BUY transactions, the cash_balance
\* of each transaction is the ledger cash right after it, and a step that
\* records no transaction changes neither cash nor holdings.
C28_CashAccounting ==
    [][LET txs == portfolio'.transaction_history
       IN  /\ portfolio'.cash_balance = CashAfter(txs, Len(txs), FundedCash)
           /\ \A n \in DOMAIN txs :
                 txs[n].cash_balance = CashAfter(txs, n, FundedCash)
           /\ NewTransactions(portfolio, portfolio') = <<>> =>
                 /\ portfolio'.cash_balance = CashBefore
                 /\ portfolio'.holdings = portfolio.holdings]_vars

-----------------------------------------------------------------------------
\* C29: the selection of a date contains each security at most once, with its
\* snapshot of the latest report date <= the date, and the equal weights count
\* each security once: every weight is 1 / N for N selected securities.
C29_SelectedOnce ==
    selection.date > 0 =>
        /\ \A i, j \in DOMAIN selection.top_stocks :
              selection.top_stocks[i].company_id
                  = selection.top_stocks[j].company_id => i = j
        /\ \A i \in DOMAIN selection.top_stocks :
              selection.top_stocks[i].report_date
                  \in LatestDate(selection.top_stocks[i].company_id, selection.date)
        /\ request.weighting_method = "equal" =>
              \A k \in DOMAIN selection.weights :
                  selection.weights[k].weight
                      = DivRound(1, Cardinality({selection.top_stocks[i].company_id :
                                                    i \in DOMAIN selection.top_stocks}),
                                 8)

-----------------------------------------------------------------------------
\* point i of a snapshot sequence is strictly below the running peak, the
\* highest total_value of the points up to and including it
BelowPeak(history, i) ==
    \E j \in 1..i : history[j].total_value > history[i].total_value

\* the number of consecutive points, ending at and including point i, that
\* are strictly below the running peak
ConsecutiveBelowPeak(history, i) ==
    i - SetMax({0} \cup {j \in 1..i : ~BelowPeak(history, j)})

\* C30: at every point of the snapshot sequence the drawdown duration is the
\* number of consecutive points, ending at and including the point, whose
\* total_value is strictly below the running peak, and 0 at a point that sets
\* or equals the peak.
C30_DrawdownDuration ==
    (call.operation = "calculate_drawdown_series" /\ ~call.outcome.raised) =>
        /\ Len(call.outcome.value) = Len(call.portfolio_history)
        /\ \A i \in DOMAIN call.outcome.value :
              call.outcome.value[i].drawdown_duration
                  = ConsecutiveBelowPeak(call.portfolio_history, i)

====
